---- MODULE Spec2Model ----
(***************************************************************************)
(* Client-side session / tab-visibility reconciliation of Aditi Daily      *)
(* Updates: the tab-switch utility (three revisions), the Supabase client  *)
(* fetch wrapper, the auth provider and the user dashboard.                *)
(***************************************************************************)
EXTENDS Integers, Sequences, FiniteSets, TLC

(***************************************************************************)
(* Bounds of the model.                                                    *)
(***************************************************************************)
\* granularity of the clock of the flag specification, in milliseconds
FlagTick == 500
\* how far past StartTime the clock of the flag specification runs
FlagHorizon == 6000
\* number of user and platform events in a behaviour of the flag specification
FlagEvents == 5
\* number of distinct random suffixes getTabId may draw
NumRandom == 2

(***************************************************************************)
(* Program constants (milliseconds).                                       *)
(***************************************************************************)
\* Date.now() when the page is loaded; any value later than two hours
StartTime == 10800000
\* src/lib/tabSwitchUtil.ts: setTimeout(..., 2000) in preventNextTabSwitchRefresh
RapidRefreshTimeout == 2000
\* src/lib/tabSwitchUtil.ts: (now - timestamp) < 2000 in isReturningFromTabSwitch
RapidRefreshWindow == 2000
\* part_004 / part_005: setTimeout(..., 2500) of the visibilitychange handler
ReturningTimeout == 2500
\* part_004 / part_005: setTimeout(..., 5000) in preventNextTabSwitchRefresh
PreventRefreshTimeout == 5000

\* The three revisions of lib/tabSwitchUtil the repository holds.
Variants == {"simplified", "suppressive", "corrected"}
TAB_ACTIVE_CLASS == "tab-just-activated"
RandomSuffixes == 1..NumRandom

VARIABLES
    now,          \* Date.now()
    variant,      \* which revision of lib/tabSwitchUtil is installed
    visibility,   \* document.visibilityState
    route,        \* window.location.pathname
    ssRapid,      \* sessionStorage['prevent_rapid_refresh']: decimal digits, <<>> absent
    ssReturning,  \* sessionStorage['returning_from_tab_switch'] is present
    ssPrevent,    \* sessionStorage['prevent_auto_refresh']: decimal digits, <<>> absent
    ssTabId,      \* sessionStorage['aditi_tab_id']: <<>> absent, else <<id>>
    bodyClass,    \* document.body.classList
    lsTabState,   \* localStorage['aditi_tab_state']
    timers,       \* pending setTimeout callbacks
    armedAt,      \* history: per flag, the time it was last set (-1: never)
    rearmed,      \* history: per flag, whether it was last set while still active
    budget,       \* number of further user and platform events the model lets happen
    \* ---- auth provider (part_003)
    user,         \* the held identity: <<>> none, else <<User>>
    authIsLoading,
    lsUserCache,  \* localStorage['aditi_user_cache']
    lsSupabaseAuth, \* localStorage['aditi_supabase_auth']
    ssSimpleTabState, \* sessionStorage['simple_tab_state']
    providerMounted, \* the AuthProvider's effects have run
    subscribed,   \* its onAuthStateChange subscription is active
    sessionChecks, \* checkSessionQuietly calls awaiting getSession, by closure
    updating,     \* updateUserData calls awaiting their queries
    refreshing,   \* a refreshUser call awaits getUser
    lastRead,     \* history: the last read of a cached identity or session
    lastRestore,  \* history: the last restoreTabState call
    envSupabaseUrl, \* process.env.NEXT_PUBLIC_SUPABASE_URL || ''
    installs,     \* number of ensureTokenInRequests() calls made: the wrappers
                  \* that lie around the platform's fetch
    nested,       \* the window.fetch call on its way through these wrappers
    lastFetch,    \* history: the last call of window.fetch, once it has ended
    windowSupabase, \* window.supabase: whether a client is exposed, its live session
    awaiting,     \* the window.fetch call that awaits getAuthToken()
    tokenCall,    \* history: the last call of getAuthToken or getAuthTokenSync
    wFrames,      \* the calls of the client's custom fetch under way, innermost last
    wCalls,       \* history: refreshSession calls and network requests of a call
    tabWork,      \* per tab: the record a saveTabState call built and has yet to store
    otherTabId,   \* sessionStorage['aditi_tab_id'] of a second tab of this origin
    saved,        \* history: the records stored by saveTabState calls, in order
    escaped,      \* history: the listeners an exception has left
    restoredFromTab, \* state of the app shell (part_001)
    replaced,     \* history: the routes handed to router.replace, in order
    \* ---- user dashboard (part_002)
    dMounted,     \* a UserDashboard instance is mounted
    dInst,        \* number of instances mounted so far
    dIsLoading,   \* its isLoading state
    dLoadingTimeout, \* its loadingTimeout state: <<>> or <<timer>>
    userUpdates,  \* its userUpdates state: the statuses of the loaded rows
    dPc,          \* what the running fetchUserUpdates awaits ("idle": none running)
    wPc,          \* what the Supabase client's fetch wrapper awaits for it
    nRefresh,     \* refreshSession calls made for its updates query, by either layer
    nQueryNet,    \* network requests made for its updates query
    saw406,       \* the dashboard's error branch saw a 406 during it
    invokedAt,    \* history: time of the last fetchUserUpdates call (-1: never)
    signOutCalls, \* history: signOut calls made by the running fetchUserUpdates
    signOutFrom,  \* history: <<>> or the held and the cached identity when the
                  \* signOut under way was called
    activeFilter, \* its activeFilter state
    filteredUpdates, \* its filteredUpdates state
    stats         \* its stats state

utilVars == <<now, variant, visibility, route, ssRapid, ssReturning, ssPrevent,
              ssTabId, bodyClass, lsTabState, timers, armedAt, rearmed, budget>>
authVars == <<user, authIsLoading, lsUserCache, lsSupabaseAuth, ssSimpleTabState,
              providerMounted, subscribed, sessionChecks, updating, refreshing,
              lastRead, lastRestore>>
dashVars == <<dMounted, activeFilter, dInst, dIsLoading, dLoadingTimeout, userUpdates,
              filteredUpdates, stats, dPc, wPc,
              nRefresh, nQueryNet, saw406, invokedAt, signOutCalls, signOutFrom>>

\* the provider's variables other than user, isLoading and the cached identity
authRest == <<lsSupabaseAuth, ssSimpleTabState, providerMounted, subscribed,
              sessionChecks, updating, refreshing, lastRead, lastRestore>>

fetchVars == <<envSupabaseUrl, installs, nested, lastFetch, windowSupabase, awaiting, tokenCall, wFrames, wCalls>>

tabVars == <<tabWork, otherTabId, saved, escaped, restoredFromTab, replaced>>

vars == <<utilVars, authVars, dashVars, fetchVars, tabVars>>

(***************************************************************************)
(* Strings and JSON.  A stored string is either absent (getItem gives      *)
(* null), the text of a JSON document, or text that is not JSON.           *)
(***************************************************************************)
Absent == [kind |-> "absent"]
RawText(t) == [kind |-> "raw", text |-> t]
\* JSON.stringify
JSONstringify(v) == [kind |-> "json", val |-> v]
\* JSON.parse: ok = FALSE stands for the SyntaxError it throws
JSONparse(s) == IF s.kind = "json" THEN [ok |-> TRUE, val |-> s.val]
                ELSE [ok |-> FALSE]

RECURSIVE Digits(_)
\* Number.prototype.toString of a non-negative integer
Digits(n) == IF n < 10 THEN <<n>> ELSE Append(Digits(n \div 10), n % 10)

RECURSIVE parseInt(_)
\* parseInt of a string of decimal digits
parseInt(s) == IF Len(s) = 0 THEN 0
               ELSE 10 * parseInt(SubSeq(s, 1, Len(s) - 1)) + s[Len(s)]

Min(a, b) == IF a < b THEN a ELSE b

\* no refreshSession call and no request has been made
NoCalls == [refresh |-> 0, net |-> 0]

\* no call of getAuthToken or getAuthTokenSync has been made
NoTokenCall == [fn |-> "none", pc |-> "none", val |-> <<>>]

(***************************************************************************)
(* lib/tabSwitchUtil                                                       *)
(***************************************************************************)
\* isReturningFromTabSwitch of src/lib/tabSwitchUtil.ts, on given storage contents
isReturningSimplified(rapid) ==
    IF rapid # <<>> THEN (now - parseInt(rapid)) < RapidRefreshWindow ELSE FALSE

\* isReturningFromTabSwitch of part_004 and part_005, on given storage contents
isReturningLegacy(returning, prevent, classes) ==
    \/ returning
    \/ prevent # <<>>
    \/ TAB_ACTIVE_CLASS \in classes
    \/ "dashboard-tab-active" \in classes

\* isReturningFromTabSwitch of the installed revision, on given storage contents
isReturningOn(rapid, returning, prevent, classes) ==
    IF variant = "simplified" THEN isReturningSimplified(rapid)
    ELSE isReturningLegacy(returning, prevent, classes)

\* isReturningFromTabSwitch() in the current state
isReturningFromTabSwitch == isReturningOn(ssRapid, ssReturning, ssPrevent, bodyClass)

\* getTabId were it to draw an identifier at every call
getTabIdOnAnew(stored, r) == <<[t |-> now, r |-> r]>>
\* getTabId: sessionStorage['aditi_tab_id'] after the call, given it before the
\* call; r is the random suffix drawn if an identifier is generated, and the
\* identifier returned is the element of the result
getTabIdOn(stored, r) == IF stored = <<>> THEN <<[t |-> now, r |-> r]>> ELSE stored

getTabId(r) == getTabIdOn(ssTabId, r)

\* the same with the fields of the caller spread first, under those of the record
tabStateRecordOnFieldsUnder(stored, additionalData, r) ==
    [tabId |-> getTabIdOn(stored, r)[1], lastActive |-> now, route |-> route]
        @@ additionalData

\* the record saveTabState of part_004 / part_005 builds
tabStateRecordOn(stored, additionalData, r) ==
    additionalData @@
        [tabId |-> getTabIdOn(stored, r)[1], lastActive |-> now, route |-> route]

\* the record saveTabState of the simplified revision builds (lines 237-241)
simpleTabStateRecord(additionalData) ==
    additionalData @@ [lastActive |-> now, route |-> route]

tabStateRecord(additionalData, r) == tabStateRecordOn(ssTabId, additionalData, r)

\* setTimeout(cb, delay): inst is the dashboard instance whose state cb sets,
\* cu the identity the callback's closure holds
mkTimer(cb, delay, inst, cu) == [cb |-> cb, due |-> now + delay, inst |-> inst, cu |-> cu]

FlagKinds == {"rapid", "returning", "prevent"}
WindowOf(k) == CASE k = "rapid" -> RapidRefreshWindow
                 [] k = "returning" -> ReturningTimeout
                 [] k = "prevent" -> PreventRefreshTimeout

\* one more user or platform event
Spend == budget > 0 /\ budget' = budget - 1

\* history of the flag k being set now
Arm(k) ==
    /\ armedAt' = [armedAt EXCEPT ![k] = now]
    /\ rearmed' = [rearmed EXCEPT
                      ![k] = armedAt[k] >= 0 /\ armedAt[k] < now /\ now < armedAt[k] + WindowOf(k)]

\* the storage that preventNextTabSwitchRefresh leaves, and the timer it starts
preventNextTabSwitchRefresh(r) ==
    IF variant = "simplified"
    THEN [rapid |-> Digits(now), prevent |-> ssPrevent, tabId |-> ssTabId,
          tabState |-> lsTabState,
          timer |-> mkTimer("clearRapid", RapidRefreshTimeout, 0, <<>>), kind |-> "rapid"]
    ELSE [rapid |-> ssRapid, prevent |-> Digits(now), tabId |-> getTabId(r),
          tabState |-> JSONstringify(tabStateRecord(<<>>, r)),
          timer |-> mkTimer("clearPrevent", PreventRefreshTimeout, 0, <<>>), kind |-> "prevent"]

\* saveTabState(additionalData) of part_004 / part_005: the stored value it leaves
saveTabStateLegacy(additionalData, r) == JSONstringify(tabStateRecord(additionalData, r))

(***************************************************************************)
(* pages/user-dashboard (part_002) and the Supabase client's fetch wrapper *)
(***************************************************************************)
\* part_002: setTimeout(..., 15000), the hard timeout of the loader
LoadingTimeoutMs == 15000
\* granularity of the clock of the dashboard specification, in milliseconds
DashTick == 5000
\* how far past StartTime the clock of the dashboard specification runs
DashHorizon == 16000
\* number of user and platform events in a behaviour of the dashboard specification
DashEvents == 3
\* number of UserDashboard instances mounted in one behaviour
MaxMounts == 2

\* the rows a non-empty result of the updates query holds, by status
SomeRows == <<"completed", "blocked">>
\* what the network answers to a query
Responses == {"rows", "empty", "406", "err"}

\* window.fetch of the installed revision answers a Supabase REST request with a
\* fabricated response instead of calling the network (part_004, lines 121-162)
fetchIsBlocked ==
    variant = "suppressive" /\ isReturningLegacy(ssReturning, ssPrevent, bodyClass)

\* the filters of the status cards
CardFilters == {"all", "completed", "in-progress", "blocked"}

\* calculateStats(updates): the stats state it sets
calculateStats(updates) ==
    LET n(status) == Cardinality({i \in DOMAIN updates : updates[i] = status}) IN
    [totalUpdates |-> Len(updates),
     completedTasks |-> n("completed"),
     inProgressTasks |-> n("in-progress"),
     blockedTasks |-> n("blocked")]

\* applyFilters() in a closure whose userUpdates is updates and whose
\* activeFilter is filter: the filteredUpdates and the stats state afterwards
applyFilters(updates, filter, oldStats) ==
    IF Len(updates) = 0
    THEN [filtered |-> <<>>, stats |-> oldStats]
    ELSE [filtered |-> IF filter \in {"completed", "in-progress", "blocked"}
                       THEN SelectSeq(updates, LAMBDA u : u = filter)
                       ELSE updates,
          stats |-> calculateStats(updates)]

\* the finally block of fetchUserUpdates, after setUserUpdates(rows) or none.  Its
\* clearTimeout(loadingTimeout) names the timer this call's closure captured, which
\* the call itself cleared before its first await: the pending timers stay
Finish(rows) ==
    /\ dPc' = "idle"
    /\ wPc' = "none"
    /\ dIsLoading' = FALSE
    /\ userUpdates' = rows
    \* calculateStats(rows), then the effect on [userUpdates, activeFilter]
    /\ stats' = calculateStats(rows)
    /\ filteredUpdates' = applyFilters(rows, activeFilter, stats).filtered

\* fetchUserUpdates() up to its first await.  ret: what isReturningFromTabSwitch()
\* answers; base: the pending timers; early: isLoading after the early return
fetchUserUpdates(ret, base, inst, early) ==
    /\ invokedAt' = now
    /\ IF ret
       THEN /\ timers' = base
            /\ dIsLoading' = early
            /\ UNCHANGED <<dLoadingTimeout, userUpdates, filteredUpdates, stats, dPc,
                           wPc, nRefresh, nQueryNet,
                           saw406, signOutCalls, signOutFrom>>
       ELSE LET timeout == mkTimer("loadingTimeout", LoadingTimeoutMs, inst, <<>>) IN
            /\ dIsLoading' = TRUE
            /\ timers' = (base \ {dLoadingTimeout[i] : i \in DOMAIN dLoadingTimeout})
                            \cup {timeout}
            /\ dLoadingTimeout' = <<timeout>>
            /\ dPc' = "query1"
            /\ wPc' = "net1"
            /\ nRefresh' = 0
            /\ nQueryNet' = 1
            /\ saw406' = FALSE
            /\ signOutCalls' = 0
            /\ signOutFrom' = <<>>
            /\ UNCHANGED <<userUpdates, filteredUpdates, stats>>

\* the effect on [user, dateRange] after a date change, or handleEditSuccess
FetchCall ==
    /\ dMounted /\ user # <<>>
    /\ isReturningFromTabSwitch \/ dPc = "idle"
    /\ fetchUserUpdates(isReturningFromTabSwitch, timers, dInst, dIsLoading)
    /\ Spend
    /\ UNCHANGED <<now, variant, visibility, route, ssRapid, ssReturning, ssPrevent,
                   ssTabId, bodyClass, lsTabState, armedAt, rearmed>>
    /\ UNCHANGED <<authVars, dMounted, activeFilter, dInst>>
    /\ UNCHANGED fetchVars
    /\ UNCHANGED tabVars

\* the page is opened: first render (useState initial values, which an unmounted
\* dashboard's variables hold), then the effect on [user, dateRange]
Mount ==
    /\ ~dMounted /\ dInst < MaxMounts /\ user # <<>> /\ dPc = "idle"
    /\ dMounted' = TRUE
    /\ UNCHANGED activeFilter
    /\ dInst' = dInst + 1
    /\ route' = "/user-dashboard"
    /\ fetchUserUpdates(isReturningFromTabSwitch, timers, dInst + 1, dIsLoading)
    /\ Spend
    /\ UNCHANGED <<now, variant, visibility, ssRapid, ssReturning, ssPrevent,
                   ssTabId, bodyClass, lsTabState, armedAt, rearmed>>
    /\ UNCHANGED authVars
    /\ UNCHANGED fetchVars
    /\ UNCHANGED tabVars

\* the page is left; the state of the instance is dropped
Unmount ==
    /\ dMounted /\ dPc = "idle"
    /\ dMounted' = FALSE
    /\ activeFilter' = "all"
    /\ route' = "/daily-update-form"
    /\ dIsLoading' = TRUE
    /\ dLoadingTimeout' = <<>>
    /\ userUpdates' = <<>>
    /\ filteredUpdates' = <<>>
    /\ stats' = calculateStats(<<>>)
    /\ invokedAt' = -1
    /\ Spend
    /\ UNCHANGED <<now, variant, visibility, ssRapid, ssReturning, ssPrevent, ssTabId,
                   bodyClass, lsTabState, timers, armedAt, rearmed>>
    /\ UNCHANGED <<authVars, dInst, dPc, wPc, nRefresh, nQueryNet, saw406,
                   signOutCalls, signOutFrom>>
    /\ UNCHANGED fetchVars
    /\ UNCHANGED tabVars

\* delay of the timer of filterByCardType, in milliseconds
FilterDelay == 100

\* filterByCardType(filterType), a click on a status card: setActiveFilter, the
\* timer whose applyFilters() is the one of the render the click was made in,
\* then the re-render and its effect on [userUpdates, activeFilter], an
\* applyFilters() that sees the new filter
filterByCardType(filterType) ==
    /\ dMounted
    /\ Spend
    /\ activeFilter' = filterType
    /\ timers' = timers \cup
          {mkTimer("applyFilters", FilterDelay, dInst,
                   <<[userUpdates |-> userUpdates, activeFilter |-> activeFilter]>>)}
    /\ LET a == IF filterType # activeFilter
                THEN applyFilters(userUpdates, filterType, stats)
                ELSE [filtered |-> filteredUpdates, stats |-> stats] IN
       /\ filteredUpdates' = a.filtered
       /\ stats' = a.stats
    /\ UNCHANGED <<now, variant, visibility, route, ssRapid, ssReturning, ssPrevent,
                   ssTabId, bodyClass, lsTabState, armedAt, rearmed>>
    /\ UNCHANGED <<authVars, dMounted, dInst, dIsLoading, dLoadingTimeout, userUpdates,
                   dPc, wPc, nRefresh, nQueryNet, saw406, invokedAt, signOutCalls,
                   signOutFrom>>
    /\ UNCHANGED fetchVars
    /\ UNCHANGED tabVars

\* refreshData (manual refresh): through its finally block; the promise of
\* fetchUserUpdates is already settled when the flag makes it return early
refreshData ==
    /\ dMounted
    /\ Spend
    /\ IF isReturningFromTabSwitch
       THEN UNCHANGED <<now, variant, visibility, route, ssRapid, ssReturning, ssPrevent,
                        ssTabId, bodyClass, lsTabState, timers, armedAt, rearmed,
                        authVars, dashVars>>
       ELSE \E r \in RandomSuffixes :
            LET p == preventNextTabSwitchRefresh(r)
                ret == isReturningOn(p.rapid, ssReturning, p.prevent, bodyClass) IN
            /\ ret \/ dPc = "idle"
            /\ ssRapid' = p.rapid
            /\ ssPrevent' = p.prevent
            /\ ssTabId' = p.tabId
            /\ lsTabState' = p.tabState
            /\ Arm(p.kind)
            /\ fetchUserUpdates(ret, timers \cup {p.timer}, dInst, FALSE)
            /\ UNCHANGED <<now, variant, visibility, route, ssReturning, bodyClass>>
            /\ UNCHANGED <<authVars, dMounted, activeFilter, dInst>>
    /\ UNCHANGED fetchVars
    /\ UNCHANGED tabVars

\* the same were the flag not looked at when the request is issued: the request
\* of a function that began with the flag down goes to the network
IssueTeamsUnguarded ==
    /\ dPc' = "teams"
    /\ wPc' = "net1"
    /\ UNCHANGED <<dIsLoading, userUpdates, filteredUpdates, stats>>

\* the continuation of fetchUserUpdates after the updates query or its retry gave
\* rows: the teams query is issued
IssueTeams ==
    IF fetchIsBlocked
    THEN Finish(<<>>)
    ELSE /\ dPc' = "teams"
         /\ wPc' = "net1"
         /\ UNCHANGED <<dIsLoading, userUpdates, filteredUpdates, stats>>

\* the continuation of fetchUserUpdates when the awaited query settles with resp
\* ("blocked": the fabricated response of the suppressive window.fetch)
Deliver(resp) ==
    CASE dPc = "query1" ->
           IF resp = "406"
           THEN /\ saw406' = TRUE
                /\ nRefresh' = nRefresh + 1
                /\ dPc' = "refresh"
                /\ wPc' = "none"
                /\ UNCHANGED <<dIsLoading, userUpdates, filteredUpdates, stats>>
           ELSE /\ IF resp = "rows" THEN IssueTeams ELSE Finish(<<>>)
                /\ UNCHANGED <<saw406, nRefresh>>
      [] dPc = "query2" ->
           /\ IF resp = "rows" THEN IssueTeams ELSE Finish(<<>>)
           /\ UNCHANGED <<saw406, nRefresh>>
      [] dPc = "teams" ->
           /\ IF resp = "blocked" THEN Finish(<<>>) ELSE Finish(SomeRows)
           /\ UNCHANGED <<saw406, nRefresh>>

\* the network answers the request the fetch wrapper of supabaseClient.ts awaits
NetRespond(resp) ==
    /\ wPc \in {"net1", "net2"}
    /\ IF resp = "406" /\ wPc = "net1"
       THEN /\ wPc' = "refresh"
            /\ nRefresh' = IF dPc = "teams" THEN nRefresh ELSE nRefresh + 1
            /\ UNCHANGED <<dPc, dIsLoading, userUpdates, filteredUpdates, stats, saw406>>
       ELSE Deliver(resp)
    /\ UNCHANGED <<utilVars, authVars>>
    /\ UNCHANGED <<dMounted, activeFilter, dInst, dLoadingTimeout, nQueryNet,
                   invokedAt, signOutCalls, signOutFrom>>
    /\ UNCHANGED fetchVars
    /\ UNCHANGED tabVars

\* the refreshSession call of the fetch wrapper settles
WrapperRefreshResolve(ok) ==
    /\ wPc = "refresh"
    /\ IF ~ok
       THEN Deliver("406") /\ UNCHANGED nQueryNet
       ELSE IF fetchIsBlocked
            THEN Deliver("blocked") /\ UNCHANGED nQueryNet
            ELSE /\ wPc' = "net2"
                 /\ nQueryNet' = IF dPc = "teams" THEN nQueryNet ELSE nQueryNet + 1
                 /\ UNCHANGED <<dPc, dIsLoading, userUpdates, filteredUpdates, stats,
                                saw406, nRefresh>>
    /\ UNCHANGED <<utilVars, authVars>>
    /\ UNCHANGED <<dMounted, activeFilter, dInst, dLoadingTimeout, invokedAt,
                   signOutCalls, signOutFrom>>
    /\ UNCHANGED fetchVars
    /\ UNCHANGED tabVars

\* the same were a failed refresh thrown to the catch block of fetchUserUpdates
\* instead of signing the user out
DashRefreshResolveThrows(ok) ==
    /\ dPc = "refresh"
    /\ IF ~ok
       THEN Finish(<<>>) /\ UNCHANGED nQueryNet
       ELSE IF fetchIsBlocked
            THEN Finish(<<>>) /\ UNCHANGED nQueryNet
            ELSE /\ dPc' = "query2"
                 /\ wPc' = "net1"
                 /\ nQueryNet' = nQueryNet + 1
                 /\ UNCHANGED <<dIsLoading, userUpdates, filteredUpdates, stats>>
    /\ UNCHANGED <<authVars, signOutCalls, signOutFrom>>
    /\ UNCHANGED utilVars
    /\ UNCHANGED <<dMounted, activeFilter, dInst, dLoadingTimeout, nRefresh, saw406,
                   invokedAt>>
    /\ UNCHANGED fetchVars
    /\ UNCHANGED tabVars

\* the refreshSession call of fetchUserUpdates settles
DashRefreshResolve(ok) ==
    /\ dPc = "refresh"
    /\ IF ~ok
       THEN \* await signOut(): the auth provider's signOut up to its await
            /\ signOutCalls' = signOutCalls + 1
            /\ signOutFrom' = <<[user |-> user, cache |-> lsUserCache]>>
            /\ authIsLoading' = TRUE
            /\ lsUserCache' = Absent
            /\ dPc' = "signout"
            /\ UNCHANGED <<user, wPc, nQueryNet, dIsLoading, userUpdates,
                           filteredUpdates, stats, authRest>>
       ELSE /\ IF fetchIsBlocked
               THEN Finish(<<>>) /\ UNCHANGED nQueryNet
               ELSE /\ dPc' = "query2"
                    /\ wPc' = "net1"
                    /\ nQueryNet' = nQueryNet + 1
                    /\ UNCHANGED <<dIsLoading, userUpdates, filteredUpdates, stats>>
            /\ UNCHANGED <<authVars, signOutCalls, signOutFrom>>
    /\ UNCHANGED utilVars
    /\ UNCHANGED <<dMounted, activeFilter, dInst, dLoadingTimeout, nRefresh, saw406,
                   invokedAt>>
    /\ UNCHANGED fetchVars
    /\ UNCHANGED tabVars

\* supabase.auth.signOut() settles inside the signOut that fetchUserUpdates awaits;
\* then signOut's finally, the return of fetchUserUpdates and its finally
SignOutResolve(ok) ==
    /\ dPc = "signout"
    /\ IF ok
       THEN /\ user' = <<>>
            /\ route' = "/"
            \* router.push('/') leaves the dashboard page
            /\ dMounted' = FALSE
            /\ activeFilter' = "all"
            /\ dIsLoading' = TRUE
            /\ dLoadingTimeout' = <<>>
            /\ userUpdates' = <<>>
            /\ filteredUpdates' = <<>>
            /\ stats' = calculateStats(<<>>)
            /\ invokedAt' = -1
       ELSE /\ dIsLoading' = FALSE
            /\ UNCHANGED <<user, route, dMounted, activeFilter, dLoadingTimeout,
                           userUpdates, filteredUpdates, stats, invokedAt>>
    /\ authIsLoading' = FALSE
    /\ dPc' = "idle"
    /\ wPc' = "none"
    /\ signOutFrom' = <<>>
    /\ UNCHANGED <<now, variant, visibility, ssRapid, ssReturning, ssPrevent, ssTabId,
                   bodyClass, lsTabState, timers, armedAt, rearmed, budget>>
    /\ UNCHANGED <<lsUserCache, authRest, dInst, nRefresh, nQueryNet, saw406,
                   signOutCalls>>
    /\ UNCHANGED fetchVars
    /\ UNCHANGED tabVars

(***************************************************************************)
(* lib/authContext (part_003)                                              *)
(***************************************************************************)
\* part_003 line 168: 2 * 60 * 60 * 1000
TwoHours == 7200000
\* part_003 line 100: delay of the session check after the tab is shown
SessionCheckDelay == 500
\* part_003 line 65: delay of the provider's safety timer
SafetyTimeout == 3000

\* the identity of the signed-in user, as updateUserData builds it
User1(checked) == [id |-> "u1", email |-> "u1@aditi.com", name |-> "u1",
                   role |-> "user", lastChecked |-> checked]

\* the consumers of the cached identity and of the cached session
Consumers == {"mount", "visibility", "checkSessionQuietly", "refreshUser",
              "windowFetch", "clientFetch"}

\* `if (s)` on a string read from storage
truthy(s) == s.kind # "absent" /\ ~(s.kind = "raw" /\ s.text = "")

\* a record of one read: the string found, the time, what
\* isReturningFromTabSwitch() answered, whether the provider held an identity,
\* whether the read made the cached identity the held one, whether a call of
\* getSession or getUser was issued or scheduled, whether an exception escaped
ReadRecord(stored, skip, held, adopted, checked, raised) ==
    [done |-> TRUE, stored |-> stored, at |-> now, skip |-> skip, held |-> held,
     adopted |-> adopted, checked |-> checked, raised |-> raised]

NoRead == [done |-> FALSE, stored |-> Absent, at |-> 0, skip |-> FALSE, held |-> FALSE,
           adopted |-> FALSE, checked |-> FALSE, raised |-> FALSE]

\* the effect of UserDashboard on [user, dateRange] after the provider's user
\* changed (changed: setUser was given a new identity); base: the pending
\* timers; ret: what isReturningFromTabSwitch() answers.  One fetchUserUpdates
\* call is followed at a time
DashboardEffect(changed, base, ret) ==
    IF dMounted /\ changed
    THEN /\ ret \/ dPc = "idle"
         /\ fetchUserUpdates(ret, base, dInst, dIsLoading)
    ELSE /\ timers' = base
         /\ UNCHANGED <<dIsLoading, dLoadingTimeout, userUpdates, filteredUpdates,
                        stats, dPc, wPc, nRefresh,
                        nQueryNet, saw406, invokedAt, signOutCalls, signOutFrom>>

\* checkSessionQuietly() up to its await, in a closure whose `user` is cu; ret:
\* what isReturningFromTabSwitch() answers; held: the provider's user.  set:
\* setUser(parsedUser) is called with val; getSession: the call is issued
checkSessionQuietly(cu, ret, held) ==
    LET p == JSONparse(lsUserCache)
        adopt == /\ ret
                 /\ truthy(lsUserCache) /\ cu = <<>>
                 /\ p.ok
                 /\ p.val.lastChecked # 0 /\ p.val.lastChecked > now - TwoHours IN
    [set |-> adopt,
     val |-> IF adopt THEN <<p.val>> ELSE <<>>,
     getSession |-> ~ret,
     read |-> IF ret
              THEN ReadRecord(lsUserCache, ret, held # <<>>, adopt, FALSE, FALSE)
              ELSE lastRead["checkSessionQuietly"]]

\* restoreTabState without its try/catch
restoreTabStateUncaught(savedState) ==
    IF ~truthy(savedState)
    THEN [raised |-> FALSE, val |-> <<>>]
    ELSE LET p == JSONparse(savedState) IN
         IF p.ok THEN [raised |-> FALSE, val |-> <<p.val>>]
         ELSE [raised |-> TRUE, val |-> <<>>]

\* restoreTabState() of part_004 / part_005 on a stored string: what it returns
\* (<<>> for null) and whether an exception escapes it
restoreTabState(savedState) ==
    IF ~truthy(savedState)
    THEN [raised |-> FALSE, val |-> <<>>]
    ELSE LET p == JSONparse(savedState) IN
         IF p.ok THEN [raised |-> FALSE, val |-> <<p.val>>]
         ELSE [raised |-> FALSE, val |-> <<>>]

\* the restore effect of the app shell (part_001 lines 96-112) with stored the
\* string under 'aditi_tab_state': the history of its restoreTabState call
restoreEffect(stored) ==
    [done |-> TRUE, stored |-> stored] @@ restoreTabState(stored)

\* the page loads: the effects of AuthProvider in their order (restore from the
\* cache and checkSessionQuietly with the first render's user, null; the
\* visibility listener; the auth listener), then those of the app shell
PageLoad ==
    /\ ~providerMounted
    /\ providerMounted' = TRUE
    /\ LET p == JSONparse(lsUserCache)
           restored == truthy(lsUserCache) /\ p.ok
           ret == isReturningFromTabSwitch
           c == checkSessionQuietly(<<>>, ret, <<>>) IN
       /\ user' = IF c.set THEN c.val ELSE IF restored THEN <<p.val>> ELSE user
       /\ sessionChecks' = IF c.getSession THEN sessionChecks \cup {[cu |-> <<>>]}
                           ELSE sessionChecks
       /\ subscribed' = ~ret
       /\ lastRead' = [lastRead EXCEPT
                          !["mount"] = ReadRecord(lsUserCache, ret, FALSE, restored,
                                                  c.getSession, FALSE),
                          !["checkSessionQuietly"] = c.read]
    /\ timers' = timers \cup {mkTimer("authSafety", SafetyTimeout, 0, <<>>)}
    /\ IF variant = "simplified"
       THEN UNCHANGED <<ssTabId, lsTabState, lastRestore>>
       ELSE \E r \in RandomSuffixes :
            /\ ssTabId' = getTabId(r)
            /\ lsTabState' = saveTabStateLegacy([initialLoad |-> TRUE], r)
            /\ lastRestore' = restoreEffect(lsTabState')
    /\ UNCHANGED <<now, variant, visibility, route, ssRapid, ssReturning, ssPrevent,
                   bodyClass, armedAt, rearmed, budget>>
    /\ UNCHANGED <<authIsLoading, lsUserCache, lsSupabaseAuth, ssSimpleTabState,
                   updating, refreshing>>
    /\ UNCHANGED dashVars
    /\ UNCHANGED fetchVars
    /\ UNCHANGED tabVars

\* the tab is reloaded: the document, its timers and the state of its components
\* are dropped, requests under way are abandoned; sessionStorage and
\* localStorage stay as they are
Reload ==
    /\ providerMounted
    /\ Spend
    /\ timers' = {}
    /\ bodyClass' = {}
    /\ visibility' = "visible"
    /\ user' = <<>>
    /\ authIsLoading' = TRUE
    /\ providerMounted' = FALSE
    /\ subscribed' = FALSE
    /\ sessionChecks' = {}
    /\ updating' = {}
    /\ refreshing' = FALSE
    /\ awaiting' = <<>>
    /\ dMounted' = FALSE
    /\ activeFilter' = "all"
    /\ dIsLoading' = TRUE
    /\ dLoadingTimeout' = <<>>
    /\ userUpdates' = <<>>
    /\ filteredUpdates' = <<>>
    /\ stats' = calculateStats(<<>>)
    /\ dPc' = "idle"
    /\ wPc' = "none"
    /\ UNCHANGED <<now, variant, route, ssRapid, ssReturning, ssPrevent, ssTabId,
                   lsTabState, armedAt, rearmed>>
    /\ UNCHANGED <<lsUserCache, lsSupabaseAuth, ssSimpleTabState, lastRead, lastRestore>>
    /\ UNCHANGED <<dInst, nRefresh, nQueryNet, saw406, invokedAt, signOutCalls,
                   signOutFrom>>
    /\ UNCHANGED <<envSupabaseUrl, installs, nested, lastFetch, windowSupabase>>
    /\ tokenCall' = NoTokenCall
    /\ wFrames' = <<>>
    /\ wCalls' = NoCalls
    /\ restoredFromTab' = FALSE
    /\ UNCHANGED <<tabWork, otherTabId, saved, escaped, replaced>>

\* how a getSession or getUser call settles
SessionResults == {"error", "session", "sessionNoEmail", "none", "throw"}
UserResults == {"error", "user", "userNoEmail", "none", "throw"}

\* the getSession call of a checkSessionQuietly call c settles: with an error,
\* with a session, with a session whose user has no email, with none, or by
\* throwing
GetSessionResolve(c, res) ==
    /\ c \in sessionChecks
    /\ sessionChecks' = sessionChecks \ {c}
    /\ CASE res = "error" ->
              /\ user' = <<>>
              /\ lsUserCache' = Absent
              /\ UNCHANGED <<updating, authIsLoading>>
         [] res = "session" ->
              \* updateUserData(session.user, false) up to its first await
              /\ updating' = updating \cup {[showLoading |-> FALSE]}
              /\ UNCHANGED <<user, lsUserCache, authIsLoading>>
         [] res = "sessionNoEmail" ->
              \* updateUserData(session.user, false): lines 217-220
              /\ user' = <<>>
              /\ UNCHANGED <<lsUserCache, updating, authIsLoading>>
         [] res = "none" ->
              IF c.cu # <<>> /\ ~truthy(lsUserCache)
              THEN /\ user' = <<>>
                   /\ lsUserCache' = Absent
                   /\ UNCHANGED <<updating, authIsLoading>>
              ELSE UNCHANGED <<user, lsUserCache, updating, authIsLoading>>
         [] res = "throw" ->
              UNCHANGED <<user, lsUserCache, updating, authIsLoading>>
    /\ UNCHANGED <<utilVars, dashVars>>
    /\ UNCHANGED <<lsSupabaseAuth, ssSimpleTabState, providerMounted, subscribed,
                   refreshing, lastRead, lastRestore>>
    /\ UNCHANGED fetchVars
    /\ UNCHANGED tabVars

\* the queries of an updateUserData call u have settled: the identity is built,
\* held and cached; then its finally block, and that of a refreshUser awaiting it
UpdateFinish(u) ==
    /\ u \in updating
    /\ updating' = updating \ {u}
    /\ user' = <<User1(now)>>
    /\ lsUserCache' = JSONstringify(User1(now))
    /\ authIsLoading' = IF u.showLoading THEN FALSE ELSE authIsLoading
    /\ DashboardEffect(TRUE, timers, isReturningFromTabSwitch)
    /\ UNCHANGED <<now, variant, visibility, route, ssRapid, ssReturning, ssPrevent,
                   ssTabId, bodyClass, lsTabState, armedAt, rearmed, budget>>
    /\ UNCHANGED <<lsSupabaseAuth, ssSimpleTabState, providerMounted, subscribed,
                   sessionChecks, refreshing, lastRead, lastRestore>>
    /\ UNCHANGED <<dMounted, activeFilter, dInst>>
    /\ UNCHANGED fetchVars
    /\ UNCHANGED tabVars

\* refreshUser(), called by a page, up to its await
RefreshUserCall ==
    /\ providerMounted /\ ~refreshing
    /\ Spend
    /\ LET ret == isReturningFromTabSwitch
           p == JSONparse(lsUserCache)
           adopt == ret /\ truthy(lsUserCache) /\ p.ok IN
       /\ user' = IF adopt THEN <<p.val>> ELSE user
       /\ authIsLoading' = IF ret THEN authIsLoading ELSE TRUE
       /\ refreshing' = ~ret
       /\ lastRead' = IF ret
                      THEN [lastRead EXCEPT
                               !["refreshUser"] = ReadRecord(lsUserCache, ret, user # <<>>,
                                                             adopt, FALSE, FALSE)]
                      ELSE lastRead
       /\ DashboardEffect(adopt, timers, ret)
    /\ UNCHANGED <<now, variant, visibility, route, ssRapid, ssReturning, ssPrevent,
                   ssTabId, bodyClass, lsTabState, armedAt, rearmed>>
    /\ UNCHANGED <<lsUserCache, lsSupabaseAuth, ssSimpleTabState, providerMounted,
                   subscribed, sessionChecks, updating, lastRestore>>
    /\ UNCHANGED <<dMounted, activeFilter, dInst>>
    /\ UNCHANGED fetchVars
    /\ UNCHANGED tabVars

\* the getUser call of refreshUser settles: with an error, with a user, with
\* none, or by throwing; then refreshUser's finally unless updateUserData is awaited
GetUserResolve(res) ==
    /\ refreshing
    /\ refreshing' = FALSE
    /\ CASE res \in {"error", "throw"} ->
              /\ user' = <<>>
              /\ authIsLoading' = FALSE
              /\ UNCHANGED <<lsUserCache, updating>>
         [] res = "user" ->
              \* updateUserData(authUser) up to its first await
              /\ authIsLoading' = TRUE
              /\ updating' = updating \cup {[showLoading |-> TRUE]}
              /\ UNCHANGED <<user, lsUserCache>>
         [] res = "userNoEmail" ->
              \* updateUserData(authUser): lines 217-220, then the finally blocks
              /\ user' = <<>>
              /\ authIsLoading' = FALSE
              /\ UNCHANGED <<lsUserCache, updating>>
         [] res = "none" ->
              /\ user' = <<>>
              /\ lsUserCache' = Absent
              /\ authIsLoading' = FALSE
              /\ UNCHANGED updating
    /\ UNCHANGED <<utilVars, dashVars>>
    /\ UNCHANGED <<lsSupabaseAuth, ssSimpleTabState, providerMounted, subscribed,
                   sessionChecks, lastRead, lastRestore>>
    /\ UNCHANGED fetchVars
    /\ UNCHANGED tabVars

\* global.fetch of the Supabase client (supabaseClient.ts lines 39-81) is given a
\* request of the auth client, whose URL holds '/auth/': with the flags of
\* sessionStorage set it builds a response from the two cached strings
ClientAuthFetch ==
    /\ providerMounted
    /\ Spend
    /\ LET flagged == ssReturning \/ ssPrevent # <<>>
           session == JSONparse(lsSupabaseAuth)
           cached == JSONparse(lsUserCache)
           raised == /\ flagged
                     /\ truthy(lsUserCache) \/ truthy(lsSupabaseAuth)
                     /\ \/ truthy(lsSupabaseAuth) /\ ~session.ok
                        \/ truthy(lsUserCache) /\ ~cached.ok IN
       lastRead' = IF flagged
                   THEN [lastRead EXCEPT
                            !["clientFetch"] = ReadRecord(lsUserCache, flagged, user # <<>>,
                                                          FALSE, FALSE, raised)]
                   ELSE lastRead
    /\ UNCHANGED <<now, variant, visibility, route, ssRapid, ssReturning, ssPrevent,
                   ssTabId, bodyClass, lsTabState, timers, armedAt, rearmed>>
    /\ UNCHANGED <<user, authIsLoading, lsUserCache, lsSupabaseAuth, ssSimpleTabState,
                   providerMounted, subscribed, sessionChecks, updating, refreshing,
                   lastRestore>>
    /\ UNCHANGED dashVars
    /\ UNCHANGED fetchVars
    /\ UNCHANGED tabVars

\* restoreTabState() is applied to the stored string
RestoreTabStateCall ==
    /\ variant # "simplified"
    /\ Spend
    /\ lastRestore' = restoreEffect(lsTabState)
    /\ UNCHANGED <<now, variant, visibility, route, ssRapid, ssReturning, ssPrevent,
                   ssTabId, bodyClass, lsTabState, timers, armedAt, rearmed>>
    /\ UNCHANGED <<user, authIsLoading, lsUserCache, lsSupabaseAuth, ssSimpleTabState,
                   providerMounted, subscribed, sessionChecks, updating, refreshing,
                   lastRead>>
    /\ UNCHANGED dashVars
    /\ UNCHANGED fetchVars
    /\ UNCHANGED tabVars

(***************************************************************************)
(* window.fetch as the installed revision leaves it.  A URL is a sequence  *)
(* of pieces of text, cut where the searches of the code can tell two URLs *)
(* apart; a header list is a set of <<name, value>> pairs.                 *)
(***************************************************************************)
\* window.location.origin
Origin == <<"https:", "/", "/", "app.example">>
\* NEXT_PUBLIC_SUPABASE_URL of a configured build
BackendUrl == <<"https:", "/", "/", "xyz.", "supabase", ".co">>

\* String.prototype.startsWith
startsWith(s, p) == Len(p) <= Len(s) /\ SubSeq(s, 1, Len(p)) = p
\* String.prototype.includes
includes(s, p) == \E i \in 1..(Len(s) - Len(p) + 1) : SubSeq(s, i, i + Len(p) - 1) = p

\* a header name as the Headers class keeps it
lower(n) == IF n = "Authorization" THEN "authorization" ELSE n
\* new Headers(entries)
NewHeaders(entries) == {<<lower(e[1]), e[2]>> : e \in entries}
\* Headers.prototype.has
HeadersHas(h, n) == \E e \in h : e[1] = lower(n)
\* Headers.prototype.set
HeadersSet(h, n, v) == {e \in h : e[1] # lower(n)} \cup {<<lower(n), v>>}

\* a string that is not JSON, holds a dot and is longer than 100 characters
RawJwt == RawText("eyJ.raw.token")

\* JSON values that are no objects: null, a number, a short string, and a
\* string that holds a dot and is longer than 100 characters.  An object is a
\* record without the field json
JsonNull == [json |-> "null"]
JsonNumber == [json |-> "number"]
JsonString == [json |-> "string", text |-> "abc"]
JsonJwt == [json |-> "string", text |-> "eyJ.json.token"]

\* v?.k on a parsed value: <<>> for undefined
prop(v, k) == IF "json" \notin DOMAIN v /\ k \in DOMAIN v THEN <<v[k]>> ELSE <<>>

\* the three places the scans look at (lines 57-70 and 124-134), in their order:
\* parsedData?.access_token, ?.session?.access_token, ?.data?.session?.access_token
storedToken(v) ==
    LET session == prop(v, "session")
        data == prop(v, "data")
        dataSession == IF Len(data) = 0 THEN <<>> ELSE prop(data[1], "session") IN
    IF Len(prop(v, "access_token")) > 0 THEN prop(v, "access_token")
    ELSE IF Len(session) > 0 /\ Len(prop(session[1], "access_token")) > 0
         THEN prop(session[1], "access_token")
    ELSE IF Len(dataSession) > 0 THEN prop(dataSession[1], "access_token")
    ELSE <<>>

\* getAuthTokenSync(): the keys of localStorage it scans hold 'supabase' and
\* 'auth', which is the key of the auth client's session; the catch of lines
\* 135-137 passes over a string that is not JSON
getAuthTokenSync ==
    LET p == JSONparse(lsSupabaseAuth) IN
    IF truthy(lsSupabaseAuth) /\ p.ok THEN storedToken(p.val) ELSE <<>>

\* getAuthToken(), lines 10-98, after Method 1 gave `live` (nothing without a
\* global client, without a session, or when getSession rejected): the token of
\* the live session, else its scan of localStorage, which also takes a string
\* that looks like a token, parsed (lines 73-76) or raw (lines 80-85)
getAuthToken(live) ==
    IF Len(live) > 0 THEN live
    ELSE IF Len(getAuthTokenSync) > 0 THEN getAuthTokenSync
    ELSE IF lsSupabaseAuth = JSONstringify(JsonJwt) THEN <<JsonJwt.text>>
    ELSE IF lsSupabaseAuth = RawJwt THEN <<lsSupabaseAuth.text>>
    ELSE <<>>

\* the live session of the build without a global client, and what Method 1
\* yields when getSession settles with `res`
NoClient == [installed |-> FALSE, session |-> <<>>]
LiveResults == {"resolves", "rejects"}
liveToken(res) ==
    IF windowSupabase.installed /\ res = "resolves" THEN windowSupabase.session ELSE <<>>

\* the init of a call without one, and `init ? { ...init } : {}`
EmptyInit == [method |-> <<>>, headers |-> <<>>]
CopyInit(init) == IF init # <<>> THEN init[1] ELSE EmptyInit

\* the test of lines 194-200: a same-origin request or a call of the backend
tokenWanted(url) ==
    LET isSameOrigin == startsWith(url, <<"/">>) \/ startsWith(url, Origin)
        isSupabaseCall == \/ includes(url, envSupabaseUrl)
                          \/ includes(url, <<"supabase", ".co">>)
                          \/ includes(url, <<"supabase", ".co", "m">>) IN
    isSameOrigin \/ isSupabaseCall

\* the wrapper of ensureTokenInRequests (tabSwitchUtil.ts lines 186-228): the
\* init it passes to originalFetch once its search has ended with `token`
ensureTokenInRequests(input, init, token) ==
    LET updatedInit == CopyInit(init)
        headers == NewHeaders(IF updatedInit.headers # <<>> THEN updatedInit.headers[1]
                              ELSE {}) IN
    IF tokenWanted(input.url) /\ token # <<>>
    THEN [updatedInit EXCEPT
             !.headers = <<IF ~HeadersHas(headers, "Authorization")
                              /\ ~HeadersHas(headers, "authorization")
                           THEN HeadersSet(headers, "Authorization", <<"Bearer", token[1]>>)
                           ELSE headers>>]
    ELSE updatedInit

\* the headers of the request that fetch(input, init) sends: those of init, when
\* it has any, replace those of a Request given as input
requestHeaders(input, init) ==
    IF init.headers # <<>> THEN NewHeaders(init.headers[1])
    ELSE IF input.kind = "Request" THEN input.headers
    ELSE {}

\* the string the override of part_004 searches (line 122)
overrideUrl(input) ==
    IF input.kind = "Request" THEN <<"[object Request]">> ELSE input.url

\* what a call left: the arguments, the number of calls of the fetch the
\* wrapper replaced, the arguments and headers of that call, and how the
\* getSession it awaited settled ("unasked": it awaited none)
FetchRecord(input, init, calls, callInit) ==
    [done |-> TRUE, input |-> input, init |-> init, calls |-> calls,
     callInput |-> input, callInit |-> callInit,
     sent |-> IF calls = 0 THEN {} ELSE requestHeaders(input, callInit),
     live |-> "unasked"]

NoFetch == [done |-> FALSE, input |-> [kind |-> "string", url |-> <<>>, headers |-> {}],
            init |-> <<>>, calls |-> 0,
            callInput |-> [kind |-> "string", url |-> <<>>, headers |-> {}],
            callInit |-> EmptyInit, sent |-> {}, live |-> "unasked"]

\* the URLs of the calls: of this origin, relative and absolute; of the backend;
\* of another origin, one with 'supabase.co' in its query, one written without
\* scheme, one whose host only begins like this origin's
Urls ==
    {<<"/", "api", "/", "updates">>,
     Origin \o <<"/", "api", "/", "updates">>,
     BackendUrl \o <<"/", "rest", "/", "v1">>,
     BackendUrl \o <<"/", "auth", "/", "v1">>,
     <<"https:", "/", "/", "evil.example", "/", "x">>,
     <<"https:", "/", "/", "evil.example", "/", "x", "?ref=", "supabase", ".co">>,
     <<"/", "/", "evil.example", "/", "x">>,
     <<"https:", "/", "/", "app.example", ".evil.example", "/", "x">>}

\* the header lists callers give
CallerHeaders ==
    {{}, {<<"apikey", <<"k">>>>}, {<<"Authorization", <<"Bearer", "own">>>>},
     {<<"authorization", <<"Bearer", "own">>>>, <<"apikey", <<"k">>>>}}

\* the first argument: a string, a URL object, or a Request with its own headers
FetchInputs ==
    [kind : {"string", "URL"}, url : Urls, headers : {{}}]
        \cup [kind : {"Request"}, url : Urls \ {u \in Urls : u[1] = "/"},
              headers : {NewHeaders(h) : h \in CallerHeaders}]

\* the second argument: none, or an object with or without headers
FetchInits ==
    {<<>>} \cup {<<[method |-> <<"POST">>, headers |-> h]>> :
                    h \in {<<>>} \cup {<<c>> : c \in CallerHeaders}}

\* window.fetch(input, init) is called
WindowFetch(input, init) ==
    /\ providerMounted
    /\ awaiting = <<>>
    /\ Spend
    /\ LET ret == isReturningLegacy(ssReturning, ssPrevent, bodyClass)
           url == overrideUrl(input)
           auth == includes(url, <<"/", "auth", "/">>) \/ includes(url, <<"/", "session">>)
           api == /\ includes(url, <<"/", "api", "/">>) \/ includes(url, <<"supabase">>)
                  /\ ~includes(url, <<"critical">>)
                  /\ ~includes(url, <<"force-fetch">>)
           p == JSONparse(lsUserCache) IN
       CASE variant = "simplified" ->
              \* the scan of line 202 first; getAuthToken() only when it found
              \* nothing, and that awaits getSession of a global client
              /\ IF tokenWanted(input.url) /\ getAuthTokenSync = <<>>
                    /\ windowSupabase.installed
                 THEN /\ awaiting' = <<[input |-> input, init |-> init]>>
                      /\ lastFetch' = NoFetch
                 ELSE /\ lastFetch' =
                          FetchRecord(input, init, 1,
                              ensureTokenInRequests(input, init,
                                  IF getAuthTokenSync # <<>> THEN getAuthTokenSync
                                  ELSE getAuthToken(<<>>)))
                      /\ UNCHANGED awaiting
              /\ UNCHANGED lastRead
         [] variant = "corrected" ->
              /\ lastFetch' = FetchRecord(input, init, 1, CopyInit(init))
              /\ UNCHANGED <<lastRead, awaiting>>
         [] variant = "suppressive" ->
              IF ret /\ auth
              THEN /\ lastFetch' = FetchRecord(input, init, 0, EmptyInit)
                   /\ UNCHANGED awaiting
                   /\ lastRead' = [lastRead EXCEPT
                          !["windowFetch"] =
                              ReadRecord(lsUserCache, ret, user # <<>>, FALSE, FALSE,
                                         truthy(lsUserCache) /\ ~p.ok)]
              ELSE /\ lastFetch' = IF ret /\ api
                                   THEN FetchRecord(input, init, 0, EmptyInit)
                                   ELSE FetchRecord(input, init, 1, CopyInit(init))
                   /\ UNCHANGED <<lastRead, awaiting>>
    /\ UNCHANGED <<now, variant, visibility, route, ssRapid, ssReturning, ssPrevent,
                   ssTabId, bodyClass, lsTabState, timers, armedAt, rearmed>>
    /\ UNCHANGED <<user, authIsLoading, lsUserCache, lsSupabaseAuth, ssSimpleTabState,
                   providerMounted, subscribed, sessionChecks, updating, refreshing,
                   lastRestore>>
    /\ UNCHANGED dashVars
    /\ UNCHANGED <<envSupabaseUrl, installs, nested, windowSupabase, tokenCall, wFrames, wCalls>>
    /\ UNCHANGED tabVars

\* the same without the try of lines 16-24 and 206-210: a rejection of getSession
\* ends the call before it reaches originalFetch
LiveSessionSettleUncaught(res) ==
    /\ awaiting # <<>>
    /\ LET call == awaiting[1] IN
       lastFetch' = IF res = "rejects"
                    THEN [FetchRecord(call.input, call.init, 0, EmptyInit)
                             EXCEPT !.live = res]
                    ELSE [FetchRecord(call.input, call.init, 1,
                              ensureTokenInRequests(call.input, call.init,
                                                    getAuthToken(liveToken(res))))
                             EXCEPT !.live = res]
    /\ awaiting' = <<>>
    /\ UNCHANGED <<envSupabaseUrl, installs, nested, windowSupabase, tokenCall, wFrames, wCalls>>
    /\ UNCHANGED tabVars
    /\ UNCHANGED <<utilVars, authVars, dashVars>>

\* getSession of the global client settles for the window.fetch call that awaits
\* getAuthToken() (lines 205-209, 15-25): the wrapper goes on to lines 212-227
LiveSessionSettle(res) ==
    /\ awaiting # <<>>
    /\ LET call == awaiting[1] IN
       lastFetch' = [FetchRecord(call.input, call.init, 1,
                         ensureTokenInRequests(call.input, call.init,
                                               getAuthToken(liveToken(res))))
                        EXCEPT !.live = res]
    /\ awaiting' = <<>>
    /\ UNCHANGED <<envSupabaseUrl, installs, nested, windowSupabase, tokenCall, wFrames, wCalls>>
    /\ UNCHANGED tabVars
    /\ UNCHANGED <<utilVars, authVars, dashVars>>

\* number of ensureTokenInRequests() calls in one behaviour
MaxInstalls == 3

\* no window.fetch call has gone through the wrappers
NoNested ==
    [pc |-> "idle", level |-> 0,
     input |-> [kind |-> "string", url |-> <<>>, headers |-> {}],
     init0 |-> <<>>, init |-> <<>>, found |-> <<>>, calls |-> 0, sent |-> {}]

\* a call on its way inwards: the wrapper installed as number `level` is the
\* next to run (0: the platform's fetch), call.init is the init it is handed and
\* call.found the tokens the wrappers before it ended their search with.  A
\* wrapper whose scan of line 202 finds nothing awaits getAuthToken(), which
\* awaits getSession of a global client; every other wrapper calls its
\* originalFetch, the wrapper installed before it, at once (line 227)
RECURSIVE descend(_, _)
descend(level, call) ==
    IF level = 0
    THEN [call EXCEPT !.pc = "done", !.level = 0, !.calls = @ + 1,
                      !.sent = requestHeaders(call.input, CopyInit(call.init))]
    ELSE IF tokenWanted(call.input.url) /\ getAuthTokenSync = <<>>
            /\ windowSupabase.installed
    THEN [call EXCEPT !.pc = "awaiting", !.level = level]
    ELSE LET token == IF ~tokenWanted(call.input.url) THEN <<>>
                      ELSE IF getAuthTokenSync # <<>> THEN getAuthTokenSync
                      ELSE getAuthToken(<<>>) IN
         descend(level - 1,
                 [call EXCEPT
                     !.init = <<ensureTokenInRequests(call.input, call.init, token)>>,
                     !.found = Append(@, token)])

\* the effect of the app shell (part_000 lines 16-56) runs again after a change
\* of route: ensureTokenInRequests() wraps the window.fetch it finds
EnsureTokenInRequestsCall ==
    /\ providerMounted /\ variant = "simplified"
    /\ installs < MaxInstalls
    /\ nested.pc # "awaiting"
    /\ installs' = installs + 1
    /\ UNCHANGED <<envSupabaseUrl, nested, lastFetch, windowSupabase, awaiting,
                   tokenCall, wFrames, wCalls>>
    /\ UNCHANGED tabVars
    /\ UNCHANGED <<utilVars, authVars, dashVars>>

\* window.fetch(input, init) is called: the wrapper installed last runs first
NestedFetch(input, init) ==
    /\ providerMounted /\ variant = "simplified"
    /\ nested.pc # "awaiting"
    /\ Spend
    /\ nested' = descend(installs, [NoNested EXCEPT !.input = input, !.init0 = init,
                                                    !.init = init])
    /\ UNCHANGED <<envSupabaseUrl, installs, lastFetch, windowSupabase, awaiting,
                   tokenCall, wFrames, wCalls>>
    /\ UNCHANGED tabVars
    /\ UNCHANGED <<now, variant, visibility, route, ssRapid, ssReturning, ssPrevent,
                   ssTabId, bodyClass, lsTabState, timers, armedAt, rearmed>>
    /\ UNCHANGED <<authVars, dashVars>>

\* getSession of the global client settles for the wrapper that awaits
\* getAuthToken(): it goes on to lines 212-227 and calls its originalFetch
NestedLiveSettle(res) ==
    /\ nested.pc = "awaiting"
    /\ LET token == getAuthToken(liveToken(res)) IN
       nested' = descend(nested.level - 1,
                         [nested EXCEPT
                             !.init = <<ensureTokenInRequests(nested.input, nested.init,
                                                              token)>>,
                             !.found = Append(@, token)])
    /\ UNCHANGED <<envSupabaseUrl, installs, lastFetch, windowSupabase, awaiting,
                   tokenCall, wFrames, wCalls>>
    /\ UNCHANGED tabVars
    /\ UNCHANGED <<utilVars, authVars, dashVars>>

\* getAuthTokenSync() is called and returns
GetAuthTokenSyncCall ==
    /\ providerMounted /\ variant = "simplified"
    /\ tokenCall.pc # "awaiting"
    /\ Spend
    /\ tokenCall' = [fn |-> "getAuthTokenSync", pc |-> "returned", val |-> getAuthTokenSync]
    /\ UNCHANGED <<envSupabaseUrl, installs, nested, lastFetch, windowSupabase, awaiting, wFrames, wCalls>>
    /\ UNCHANGED tabVars
    /\ UNCHANGED <<now, variant, visibility, route, ssRapid, ssReturning, ssPrevent,
                   ssTabId, bodyClass, lsTabState, timers, armedAt, rearmed>>
    /\ UNCHANGED <<authVars, dashVars>>

\* getAuthToken() is called: with a global client it awaits getSession (lines
\* 15-17), without one its promise resolves with what the scan finds
GetAuthTokenCall ==
    /\ providerMounted /\ variant = "simplified"
    /\ tokenCall.pc # "awaiting"
    /\ Spend
    /\ tokenCall' = IF windowSupabase.installed
                    THEN [fn |-> "getAuthToken", pc |-> "awaiting", val |-> <<>>]
                    ELSE [fn |-> "getAuthToken", pc |-> "returned",
                          val |-> getAuthToken(<<>>)]
    /\ UNCHANGED <<envSupabaseUrl, installs, nested, lastFetch, windowSupabase, awaiting, wFrames, wCalls>>
    /\ UNCHANGED tabVars
    /\ UNCHANGED <<now, variant, visibility, route, ssRapid, ssReturning, ssPrevent,
                   ssTabId, bodyClass, lsTabState, timers, armedAt, rearmed>>
    /\ UNCHANGED <<authVars, dashVars>>

\* getSession of the global client settles for the getAuthToken() call that
\* awaits it: the catch of lines 22-24 takes a rejection, Method 2 follows
GetAuthTokenSettle(res) ==
    /\ tokenCall.pc = "awaiting"
    /\ tokenCall' = [fn |-> "getAuthToken", pc |-> "returned",
                     val |-> getAuthToken(liveToken(res))]
    /\ UNCHANGED <<envSupabaseUrl, installs, nested, lastFetch, windowSupabase, awaiting, wFrames, wCalls>>
    /\ UNCHANGED tabVars
    /\ UNCHANGED <<utilVars, authVars, dashVars>>

\* how deep the calls of the client's custom fetch may nest in the model
MaxDepth == 3

\* HTTP statuses of the backend's responses
Statuses == {200, 406}

\* the test of supabaseClient.ts lines 41-46 on the flags of sessionStorage
clientFlagged == ssReturning \/ ssPrevent # <<>>

\* a call of the custom fetch begins (lines 39-87) for req, the data query or
\* the token request of refreshSession, whose URL holds '/auth/': under the
\* flags the token request is answered from the cache, else fetch is called
enter(frames, calls, req) ==
    IF req = "refresh" /\ clientFlagged
    THEN [frames |-> Append(frames, [req |-> req, pc |-> "answered"]), calls |-> calls]
    ELSE [frames |-> Append(frames, [req |-> req, pc |-> "net1"]),
          calls |-> [calls EXCEPT !.net = @ + 1]]

RECURSIVE return(_, _, _)
\* the innermost call returns a response with status: to the caller of the
\* outermost call, or to the refreshSession that the call beneath awaits (lines
\* 94-110), which gives no session unless the status is 200; that call then
\* returns its 406 response or retries
return(frames, calls, status) ==
    LET rest == SubSeq(frames, 1, Len(frames) - 1) IN
    IF Len(rest) = 0
    THEN [frames |-> <<>>, calls |-> calls]
    ELSE IF status = 200
         THEN [frames |-> [rest EXCEPT ![Len(rest)].pc = "net2"],
               calls |-> [calls EXCEPT !.net = @ + 1]]
         ELSE return(rest, calls, 406)

\* the data layer calls the custom fetch of the client with a query
ClientFetchCall ==
    /\ providerMounted
    /\ wFrames = <<>>
    /\ Spend
    /\ wFrames' = enter(<<>>, NoCalls, "query").frames
    /\ wCalls' = enter(<<>>, NoCalls, "query").calls
    /\ UNCHANGED <<envSupabaseUrl, installs, nested, lastFetch, windowSupabase, awaiting, tokenCall>>
    /\ UNCHANGED tabVars
    /\ UNCHANGED <<now, variant, visibility, route, ssRapid, ssReturning, ssPrevent,
                   ssTabId, bodyClass, lsTabState, timers, armedAt, rearmed>>
    /\ UNCHANGED <<authVars, dashVars>>

\* the backend answers the request of the innermost call, or the response built
\* from the cache is returned: on a 406 to its first request the call calls
\* supabase.auth.refreshSession() (line 94), whose token request the auth client
\* issues through this same custom fetch; any other response is returned
ClientFetchRespond(status) ==
    /\ wFrames # <<>>
    /\ LET top == wFrames[Len(wFrames)]
           begun == enter([wFrames EXCEPT ![Len(wFrames)].pc = "refreshing"],
                          [wCalls EXCEPT !.refresh = @ + 1], "refresh")
           ended == return(wFrames, wCalls, IF top.pc = "answered" THEN 200 ELSE status) IN
       IF top.pc = "net1" /\ status = 406
       THEN /\ Len(wFrames) < MaxDepth
            /\ wFrames' = begun.frames
            /\ wCalls' = begun.calls
       ELSE /\ top.pc \in {"net1", "net2", "answered"}
            /\ top.pc = "answered" => status = 200
            /\ wFrames' = ended.frames
            /\ wCalls' = ended.calls
    /\ UNCHANGED <<envSupabaseUrl, installs, nested, lastFetch, windowSupabase, awaiting, tokenCall>>
    /\ UNCHANGED tabVars
    /\ UNCHANGED <<utilVars, authVars, dashVars>>

(***************************************************************************)
(* Events of the platform                                                  *)
(***************************************************************************)
\* the visibilitychange listener that applySwitchPreventionToFetch installs
\* (capture phase), part_004 lines 170-197 and part_005 lines 124-134: what it
\* leaves in storage and on the body, the pending timers, whether it set the flag
utilVisibilityListener(v, r) ==
    IF variant = "simplified"
    THEN [tabId |-> ssTabId, tabState |-> lsTabState, returning |-> ssReturning,
          classes |-> bodyClass, timers |-> timers, armed |-> FALSE]
    ELSE IF v = "visible"
         THEN [tabId |-> getTabId(r),
               tabState |-> saveTabStateLegacy([lastVisible |-> now], r),
               returning |-> (variant = "suppressive") \/ ssReturning,
               classes |-> IF variant = "suppressive"
                           THEN bodyClass \cup {TAB_ACTIVE_CLASS} ELSE bodyClass,
               timers |-> timers \cup {mkTimer("clearReturning", ReturningTimeout, 0, <<>>)},
               armed |-> variant = "suppressive"]
         ELSE [tabId |-> getTabId(r),
               tabState |-> saveTabStateLegacy([lastHidden |-> now], r),
               returning |-> ssReturning, classes |-> bodyClass, timers |-> timers,
               armed |-> FALSE]

\* saveTabState(additionalData) of the installed revision, called with the
\* storage that u describes: the strings it leaves under 'aditi_tab_state' and
\* under 'simple_tab_state'
saveTabState(additionalData, u) ==
    IF variant = "simplified"
    THEN [tabState |-> u.tabState,
          simple |-> JSONstringify(simpleTabStateRecord(additionalData))]
    ELSE [tabState |-> JSONstringify(tabStateRecordOn(u.tabId, additionalData, 1)),
          simple |-> ssSimpleTabState]

\* handleVisibilityChange of AuthProvider (part_003 lines 73-114), which runs
\* after the utility's listener left u, with ret what isReturningFromTabSwitch()
\* answers then.  A key whose value is undefined is left out of the object, as
\* JSON.stringify leaves it out
handleVisibilityChange(v, u, ret) ==
    LET p == JSONparse(lsUserCache)
        restore == truthy(lsUserCache) /\ user = <<>> /\ p.ok
        check == ~restore /\ ~ret
        shown == saveTabState(IF user = <<>>
                              THEN [hasAuth |-> FALSE, authTimestamp |-> now]
                              ELSE [hasAuth |-> TRUE, authTimestamp |-> now,
                                    userEmail |-> user[1].email], u)
        hidden == IF user = <<>> THEN [tabState |-> u.tabState, simple |-> ssSimpleTabState]
                  ELSE saveTabState([hasAuth |-> TRUE, hiddenWithAuth |-> TRUE,
                                     userEmail |-> user[1].email], u) IN
    IF ~providerMounted
    THEN [tabState |-> u.tabState, simple |-> ssSimpleTabState, user |-> user,
          set |-> FALSE, timers |-> u.timers, read |-> lastRead["visibility"]]
    ELSE IF v = "visible"
         THEN [tabState |-> shown.tabState, simple |-> shown.simple,
               user |-> IF restore THEN <<p.val>> ELSE user,
               set |-> restore,
               timers |-> IF check
                          THEN u.timers \cup {mkTimer("checkSession", SessionCheckDelay,
                                                      0, user)}
                          ELSE u.timers,
               read |-> ReadRecord(lsUserCache, ret, user # <<>>, restore, check, FALSE)]
         ELSE [tabState |-> hidden.tabState, simple |-> hidden.simple, user |-> user,
               set |-> FALSE, timers |-> u.timers, read |-> lastRead["visibility"]]

\* the same with the provider's listener answered before the utility's listener
\* has run: what it would see were the flag not set in the capture phase
VisibilityChangeProviderFirst(v) ==
    /\ providerMounted
    /\ visibility # v
    /\ visibility' = v
    /\ Spend
    /\ \E r \in RandomSuffixes :
        LET u == utilVisibilityListener(v, r)
            ret == isReturningOn(ssRapid, ssReturning, ssPrevent, bodyClass)
            a == handleVisibilityChange(v, u, ret) IN
        /\ ssTabId' = u.tabId
        /\ ssReturning' = u.returning
        /\ bodyClass' = u.classes
        /\ IF u.armed THEN Arm("returning") ELSE UNCHANGED <<armedAt, rearmed>>
        /\ lsTabState' = a.tabState
        /\ ssSimpleTabState' = a.simple
        /\ user' = a.user
        /\ lastRead' = [lastRead EXCEPT !["visibility"] = a.read]
        /\ DashboardEffect(a.set, a.timers, ret)
    /\ UNCHANGED <<now, variant, route, ssRapid, ssPrevent>>
    /\ UNCHANGED <<authIsLoading, lsUserCache, lsSupabaseAuth, providerMounted,
                   subscribed, sessionChecks, updating, refreshing, lastRestore>>
    /\ UNCHANGED <<dMounted, activeFilter, dInst>>
    /\ UNCHANGED fetchVars
    /\ UNCHANGED tabVars

\* the tab is hidden or shown: the listeners run in the order of their phases
VisibilityChange(v) ==
    /\ providerMounted
    /\ visibility # v
    /\ visibility' = v
    /\ Spend
    /\ \E r \in RandomSuffixes :
        LET u == utilVisibilityListener(v, r)
            ret == isReturningOn(ssRapid, u.returning, ssPrevent, u.classes)
            a == handleVisibilityChange(v, u, ret) IN
        /\ ssTabId' = u.tabId
        /\ ssReturning' = u.returning
        /\ bodyClass' = u.classes
        /\ IF u.armed THEN Arm("returning") ELSE UNCHANGED <<armedAt, rearmed>>
        /\ lsTabState' = a.tabState
        /\ ssSimpleTabState' = a.simple
        /\ user' = a.user
        /\ lastRead' = [lastRead EXCEPT !["visibility"] = a.read]
        /\ DashboardEffect(a.set, a.timers, ret)
    /\ UNCHANGED <<now, variant, route, ssRapid, ssPrevent>>
    /\ UNCHANGED <<authIsLoading, lsUserCache, lsSupabaseAuth, providerMounted,
                   subscribed, sessionChecks, updating, refreshing, lastRestore>>
    /\ UNCHANGED <<dMounted, activeFilter, dInst>>
    /\ UNCHANGED fetchVars
    /\ UNCHANGED tabVars

\* window.location.pathname in the second tab
OtherRoute == "/dashboard"

\* the objects the callers of saveTabState hand to it, and one that names keys
\* of the record itself
SaveFields ==
    {[initialLoad |-> TRUE], [lastVisible |-> now], [lastHidden |-> now],
     [hasAuth |-> TRUE, hiddenWithAuth |-> TRUE, userEmail |-> "u1@aditi.com"],
     [route |-> "/", navigatingTo |-> "/dashboard"]}

\* sessionStorage['aditi_tab_id'] of a tab
tabIdOf(tab) == IF tab = "this" THEN ssTabId ELSE otherTabId

\* window.location.pathname of a tab
pathOf(tab) == IF tab = "this" THEN route ELSE OtherRoute

\* saveTabState(fields) in a tab up to its setItem (part_004 / part_005 lines
\* 79-84, tabSwitchUtil.ts lines 237-241): the record is built from the tab's
\* own identifier, clock and path.  The sessionStorage of the second tab holds
\* nothing but its identifier, so the simplified revision is followed in this tab
SaveTabStateBuild(tab, fields, r) ==
    /\ tabWork[tab] = <<>>
    /\ variant = "simplified" => tab = "this"
    /\ Spend
    /\ LET legacy == tabStateRecordOn(tabIdOf(tab), fields, r)
           rec == IF variant = "simplified" THEN simpleTabStateRecord(fields)
                  ELSE IF "route" \in DOMAIN fields THEN legacy
                  ELSE [legacy EXCEPT !.route = pathOf(tab)] IN
       tabWork' = [tabWork EXCEPT
                      ![tab] = <<[tab |-> tab, rec |-> rec, fields |-> fields,
                                  at |-> now, path |-> pathOf(tab)]>>]
    /\ ssTabId' = IF tab = "this" /\ variant # "simplified"
                  THEN getTabIdOn(ssTabId, r) ELSE ssTabId
    /\ otherTabId' = IF tab = "other" THEN getTabIdOn(otherTabId, r) ELSE otherTabId
    /\ UNCHANGED <<now, variant, visibility, route, ssRapid, ssReturning, ssPrevent,
                   bodyClass, lsTabState, timers, armedAt, rearmed>>
    /\ UNCHANGED <<authVars, dashVars, fetchVars, saved, escaped, restoredFromTab,
                   replaced>>

\* the same call were it to merge its record into the stored one
SaveTabStateStoreMerging(tab) ==
    /\ tabWork[tab] # <<>>
    /\ LET prev == JSONparse(lsTabState)
           prevSimple == JSONparse(ssSimpleTabState) IN
       IF variant = "simplified"
       THEN /\ ssSimpleTabState' =
                  JSONstringify(IF truthy(ssSimpleTabState) /\ prevSimple.ok
                                THEN tabWork[tab][1].rec @@ prevSimple.val
                                ELSE tabWork[tab][1].rec)
            /\ UNCHANGED lsTabState
       ELSE /\ lsTabState' = JSONstringify(IF truthy(lsTabState) /\ prev.ok
                                           THEN tabWork[tab][1].rec @@ prev.val
                                           ELSE tabWork[tab][1].rec)
            /\ UNCHANGED ssSimpleTabState
    /\ tabWork' = [tabWork EXCEPT ![tab] = <<>>]
    /\ saved' = Append(saved, tabWork[tab][1])
    /\ UNCHANGED <<now, variant, visibility, route, ssRapid, ssReturning, ssPrevent,
                   ssTabId, bodyClass, timers, armedAt, rearmed, budget>>
    /\ UNCHANGED <<user, authIsLoading, lsUserCache, lsSupabaseAuth, providerMounted,
                   subscribed, sessionChecks, updating, refreshing, lastRead,
                   lastRestore>>
    /\ UNCHANGED <<dashVars, fetchVars, otherTabId, escaped, restoredFromTab, replaced>>

\* its setItem: localStorage['aditi_tab_state'] (part_004 line 85), or
\* sessionStorage['simple_tab_state'] (tabSwitchUtil.ts line 243)
SaveTabStateStore(tab) ==
    /\ tabWork[tab] # <<>>
    /\ IF variant = "simplified"
       THEN /\ ssSimpleTabState' = JSONstringify(tabWork[tab][1].rec)
            /\ UNCHANGED lsTabState
       ELSE /\ lsTabState' = JSONstringify(tabWork[tab][1].rec)
            /\ UNCHANGED ssSimpleTabState
    /\ tabWork' = [tabWork EXCEPT ![tab] = <<>>]
    /\ saved' = Append(saved, tabWork[tab][1])
    /\ UNCHANGED <<now, variant, visibility, route, ssRapid, ssReturning, ssPrevent,
                   ssTabId, bodyClass, timers, armedAt, rearmed, budget>>
    /\ UNCHANGED <<user, authIsLoading, lsUserCache, lsSupabaseAuth, providerMounted,
                   subscribed, sessionChecks, updating, refreshing, lastRead,
                   lastRestore>>
    /\ UNCHANGED <<dashVars, fetchVars, otherTabId, escaped, restoredFromTab, replaced>>

\* the storages of a tab
Storages == {"localStorage", "sessionStorage"}

\* the utility's listener while setItem of the storages in failing throws
\* (quota exceeded, storage blocked): saveTabState catches what getTabId and
\* its own setItem throw (part_004 lines 78-88); line 176 is outside any try,
\* so the listener ends there and the exception leaves it
utilVisibilityListenerStorageFull(v, r, failing) ==
    LET ok == utilVisibilityListener(v, r)
        drawThrows == "sessionStorage" \in failing /\ ssTabId = <<>>
        saveThrows == drawThrows \/ "localStorage" \in failing
        kept == [ok EXCEPT !.tabId = IF drawThrows THEN ssTabId ELSE ok.tabId,
                           !.tabState = IF saveThrows THEN lsTabState ELSE ok.tabState] IN
    IF variant = "simplified"
    THEN ok @@ [escaped |-> FALSE]
    ELSE IF variant = "suppressive" /\ v = "visible" /\ "sessionStorage" \in failing
         THEN [tabId |-> kept.tabId, tabState |-> kept.tabState,
               returning |-> ssReturning, classes |-> bodyClass, timers |-> timers,
               armed |-> FALSE, escaped |-> TRUE]
         ELSE kept @@ [escaped |-> FALSE]

\* whether saveTabState of the installed revision, called with the storage that
\* u describes, ends in its catch block
saveTabStateThrows(u, failing) ==
    IF variant = "simplified" THEN "sessionStorage" \in failing
    ELSE \/ "localStorage" \in failing
         \/ "sessionStorage" \in failing /\ u.tabId = <<>>

\* the tab is hidden or shown while setItem of the storages in failing throws
VisibilityChangeStorageFull(v, failing) ==
    /\ providerMounted
    /\ visibility # v
    /\ visibility' = v
    /\ Spend
    /\ \E r \in RandomSuffixes :
        LET u == utilVisibilityListenerStorageFull(v, r, failing)
            ret == isReturningOn(ssRapid, u.returning, ssPrevent, u.classes)
            a == handleVisibilityChange(v, u, ret) IN
        /\ ssTabId' = u.tabId
        /\ ssReturning' = u.returning
        /\ bodyClass' = u.classes
        /\ IF u.armed THEN Arm("returning") ELSE UNCHANGED <<armedAt, rearmed>>
        /\ lsTabState' = IF saveTabStateThrows(u, failing) THEN u.tabState ELSE a.tabState
        /\ ssSimpleTabState' = IF saveTabStateThrows(u, failing) THEN ssSimpleTabState
                               ELSE a.simple
        /\ user' = a.user
        /\ lastRead' = [lastRead EXCEPT !["visibility"] = a.read]
        /\ DashboardEffect(a.set, a.timers, ret)
        /\ escaped' = IF u.escaped THEN escaped \cup {"visibilitychange"} ELSE escaped
    /\ UNCHANGED <<now, variant, route, ssRapid, ssPrevent>>
    /\ UNCHANGED <<authIsLoading, lsUserCache, lsSupabaseAuth, providerMounted,
                   subscribed, sessionChecks, updating, refreshing, lastRestore>>
    /\ UNCHANGED <<dMounted, activeFilter, dInst>>
    /\ UNCHANGED fetchVars
    /\ UNCHANGED <<tabWork, otherTabId, saved, restoredFromTab, replaced>>

\* the paths of the pages
Paths == {"/", "/user-dashboard", "/daily-update-form"}

\* tabState.route.includes('/user-dashboard')
includesUserDashboard(path) == path = "/user-dashboard"

\* the second tab, on the page of path, calls saveTabState
OtherTabSave(path, r) ==
    /\ variant # "simplified"
    /\ Spend
    /\ otherTabId' = getTabIdOn(otherTabId, r)
    /\ lsTabState' = JSONstringify([tabStateRecordOn(otherTabId, [lastHidden |-> now], r)
                                       EXCEPT !.route = path])
    /\ UNCHANGED <<now, variant, visibility, route, ssRapid, ssReturning, ssPrevent,
                   ssTabId, bodyClass, timers, armedAt, rearmed>>
    /\ UNCHANGED <<authVars, dashVars, fetchVars>>
    /\ UNCHANGED <<tabWork, saved, escaped, restoredFromTab, replaced>>

\* the restore effect of the app shell (part_001 lines 96-112) on the string
\* stored under 'aditi_tab_state', at pathname, with restored the state
\* restoredFromTab: that state after it and the route handed to router.replace
restoreStep(stored, pathname, restored) ==
    LET tabState == restoreTabState(stored).val IN
    IF restored
    THEN [restored |-> TRUE, replace |-> <<>>]
    ELSE IF /\ tabState # <<>>
            /\ "route" \in DOMAIN tabState[1]
            /\ tabState[1].route # pathname
         THEN [restored |-> TRUE,
               replace |-> IF pathname = "/" \/ ~includesUserDashboard(tabState[1].route)
                           THEN <<tabState[1].route>> ELSE <<>>]
         ELSE [restored |-> FALSE, replace |-> <<>>]

\* the router object of the app shell changes (a route event) while setItem of
\* the storages in failing throws: the first effect (part_001 lines 16-75) saves
\* the tab state, then the restore effect runs; after router.replace both run
\* again at the new path
RouterChangeStorageFull(failing) ==
    /\ providerMounted
    /\ variant # "simplified"
    /\ Spend
    /\ \E r \in RandomSuffixes :
        LET drawThrows == "sessionStorage" \in failing /\ ssTabId = <<>>
            saveThrows == drawThrows \/ "localStorage" \in failing
            stored == IF saveThrows THEN lsTabState
                      ELSE saveTabStateLegacy([initialLoad |-> TRUE], r)
            step == restoreStep(stored, route, restoredFromTab) IN
        /\ ssTabId' = IF drawThrows THEN ssTabId ELSE getTabId(r)
        /\ restoredFromTab' = step.restored
        /\ IF step.replace = <<>>
           THEN /\ lsTabState' = stored
                /\ UNCHANGED <<route, replaced>>
           ELSE /\ route' = step.replace[1]
                /\ replaced' = Append(replaced, step.replace[1])
                /\ lsTabState' = IF saveThrows THEN lsTabState
                                 ELSE JSONstringify([tabStateRecord([initialLoad |-> TRUE], r)
                                                       EXCEPT !.route = step.replace[1]])
    /\ UNCHANGED <<now, variant, visibility, ssRapid, ssReturning, ssPrevent, bodyClass,
                   timers, armedAt, rearmed>>
    /\ UNCHANGED <<authVars, dashVars, fetchVars>>
    /\ UNCHANGED <<tabWork, otherTabId, saved, escaped>>

\* a timer whose delay has passed runs its callback
TimerFire(t) ==
    /\ t \in timers /\ t.due <= now
    /\ ssRapid' = IF t.cb = "clearRapid" THEN <<>> ELSE ssRapid
    /\ ssPrevent' = IF t.cb = "clearPrevent" THEN <<>> ELSE ssPrevent
    /\ ssReturning' = IF t.cb = "clearReturning" THEN FALSE ELSE ssReturning
    /\ bodyClass' = IF t.cb = "clearReturning" THEN bodyClass \ {TAB_ACTIVE_CLASS}
                    ELSE bodyClass
    /\ authIsLoading' = IF t.cb = "authSafety" THEN FALSE ELSE authIsLoading
    /\ IF t.cb = "checkSession"
       THEN LET ret == isReturningFromTabSwitch
                c == checkSessionQuietly(t.cu, ret, user) IN
            /\ user' = IF c.set THEN c.val ELSE user
            /\ sessionChecks' = IF c.getSession THEN sessionChecks \cup {[cu |-> t.cu]}
                                ELSE sessionChecks
            /\ lastRead' = [lastRead EXCEPT !["checkSessionQuietly"] = c.read]
            /\ DashboardEffect(c.set, timers \ {t}, ret)
       ELSE /\ timers' = timers \ {t}
            /\ dIsLoading' = IF t.cb = "loadingTimeout" /\ dMounted /\ t.inst = dInst
                             THEN FALSE ELSE dIsLoading
            \* the timer of filterByCardType: applyFilters() in the closure of the
            \* render the card was clicked in
            /\ LET a == IF t.cb = "applyFilters" /\ dMounted /\ t.inst = dInst
                        THEN applyFilters(t.cu[1].userUpdates, t.cu[1].activeFilter,
                                          stats)
                        ELSE [filtered |-> filteredUpdates, stats |-> stats] IN
                 /\ filteredUpdates' = a.filtered
                 /\ stats' = a.stats
            /\ UNCHANGED <<user, sessionChecks, lastRead>>
            /\ UNCHANGED <<dLoadingTimeout, userUpdates, dPc, wPc, nRefresh, nQueryNet,
                           saw406, invokedAt, signOutCalls, signOutFrom>>
    /\ UNCHANGED <<now, variant, visibility, route, ssTabId, lsTabState, armedAt,
                   rearmed, budget>>
    /\ UNCHANGED <<lsUserCache, lsSupabaseAuth, ssSimpleTabState, providerMounted,
                   subscribed, updating, refreshing, lastRestore>>
    /\ UNCHANGED <<dMounted, activeFilter, dInst>>
    /\ UNCHANGED fetchVars
    /\ UNCHANGED tabVars

NoTimerDue == \A t \in timers : t.due > now

\* time passes, up to the next timer and never past a timer that is due
Advance(tick, horizon) ==
    /\ NoTimerDue
    /\ now < StartTime + horizon
    /\ LET step == Min(now + tick, StartTime + horizon)
           dues == {t.due : t \in timers} IN
       now' = IF \E d \in dues : d < step
              THEN CHOOSE d \in dues : \A e \in dues : d <= e
              ELSE step
    /\ UNCHANGED <<variant, visibility, route, ssRapid, ssReturning, ssPrevent, ssTabId,
                   bodyClass, lsTabState, timers, armedAt, rearmed, budget>>
    /\ UNCHANGED <<authVars, dashVars>>
    /\ UNCHANGED fetchVars
    /\ UNCHANGED tabVars

(***************************************************************************)
(* Initial states and specifications                                       *)
(***************************************************************************)
\* how long before StartTime the loader timeout of an earlier load ran out
Tick0 == 1000

\* the page has loaded with a user signed in, the app shell has run
\* (part_001: saveTabState({initialLoad: true})), the tab is visible
InitUtil(events) ==
    /\ now = StartTime
    /\ variant \in Variants
    /\ visibility = "visible"
    /\ ssRapid = <<>>
    /\ ssReturning = FALSE
    /\ ssPrevent = <<>>
    /\ bodyClass = {}
    /\ timers = {}
    /\ armedAt = [k \in FlagKinds |-> -1]
    /\ rearmed = [k \in FlagKinds |-> FALSE]
    /\ budget = events
    \* the suffix getTabId drew at start: which one it was makes no difference
    /\ ssTabId = IF variant = "simplified" THEN <<>> ELSE <<[t |-> StartTime, r |-> 1]>>
    /\ lsTabState = IF variant = "simplified" THEN Absent
                    ELSE JSONstringify([initialLoad |-> TRUE,
                                        tabId |-> [t |-> StartTime, r |-> 1],
                                        lastActive |-> StartTime, route |-> route])

\* the session record the auth client keeps under 'aditi_supabase_auth'
Session1 == [access_token |-> "t1", user |-> [id |-> "u1", email |-> "u1@aditi.com"]]

NoRestore == [done |-> FALSE, stored |-> Absent, raised |-> FALSE, val |-> <<>>]

\* the tabs of this origin: this one and a second one
Tabs == {"this", "other"}
\* no saveTabState call is under way in either tab; the second tab has drawn its
\* identifier or has none yet
InitTabs ==
    /\ tabWork = [t \in Tabs |-> <<>>]
    /\ otherTabId \in {<<>>, <<[t |-> StartTime - Tick0, r |-> 2]>>}
    /\ saved = <<>>
    /\ escaped = {}
    /\ restoredFromTab = FALSE
    /\ replaced = <<>>

\* the provider mounted long ago and holds the identity its session check built
InitAuthSignedIn ==
    /\ user = <<User1(StartTime)>>
    /\ authIsLoading = FALSE
    /\ lsUserCache = JSONstringify(User1(StartTime))
    /\ lsSupabaseAuth = JSONstringify(Session1)
    /\ ssSimpleTabState = Absent
    /\ providerMounted = TRUE
    /\ subscribed = TRUE
    /\ sessionChecks = {}
    /\ updating = {}
    /\ refreshing = FALSE
    /\ lastRead = [w \in Consumers |-> NoRead]
    /\ lastRestore = NoRestore
    /\ envSupabaseUrl = BackendUrl
    /\ installs = 1
    /\ nested = NoNested
    /\ lastFetch = NoFetch
    /\ windowSupabase = NoClient
    /\ awaiting = <<>>
    /\ tokenCall = NoTokenCall
    /\ wFrames = <<>>
    /\ wCalls = NoCalls
    /\ InitTabs

InitDashUnmounted ==
    /\ dMounted = FALSE
    /\ activeFilter = "all"
    /\ dInst = 0
    /\ dIsLoading = TRUE
    /\ dLoadingTimeout = <<>>
    /\ userUpdates = <<>>
    /\ filteredUpdates = <<>>
    /\ stats = calculateStats(<<>>)
    /\ dPc = "idle"
    /\ wPc = "none"
    /\ nRefresh = 0
    /\ nQueryNet = 0
    /\ saw406 = FALSE
    /\ invokedAt = -1
    /\ signOutCalls = 0
    /\ signOutFrom = <<>>

Init ==
    /\ route = "/daily-update-form"
    /\ InitUtil(DashEvents)
    /\ InitAuthSignedIn
    /\ InitDashUnmounted

Next ==
    \/ Mount
    \/ Unmount
    \/ FetchCall
    \/ refreshData
    \/ \E resp \in Responses : NetRespond(resp)
    \/ \E ok \in BOOLEAN : WrapperRefreshResolve(ok)
    \/ \E ok \in BOOLEAN : DashRefreshResolve(ok)
    \/ \E ok \in BOOLEAN : SignOutResolve(ok)
    \/ \E v \in {"visible", "hidden"} : VisibilityChange(v)
    \/ \E t \in timers : TimerFire(t)
    \/ \E c \in sessionChecks, res \in SessionResults : GetSessionResolve(c, res)
    \/ \E u \in updating : UpdateFinish(u)
    \/ Advance(DashTick, DashHorizon)

Spec == Init /\ [][Next]_vars

\* the dashboard was opened long ago and has loaded its rows
InitDashLoaded ==
    /\ dMounted = TRUE
    /\ activeFilter = "all"
    /\ dInst = 1
    /\ dIsLoading = FALSE
    /\ dLoadingTimeout = <<[cb |-> "loadingTimeout", due |-> StartTime - Tick0,
                            inst |-> 1, cu |-> <<>>]>>
    /\ userUpdates = SomeRows
    /\ filteredUpdates = SomeRows
    /\ stats = calculateStats(SomeRows)
    /\ dPc = "idle"
    /\ wPc = "none"
    /\ nRefresh = 0
    /\ nQueryNet = 1
    /\ saw406 = FALSE
    /\ invokedAt = StartTime - Tick0 - LoadingTimeoutMs
    /\ signOutCalls = 0
    /\ signOutFrom = <<>>

InitFlag ==
    /\ route = "/user-dashboard"
    /\ InitUtil(FlagEvents)
    /\ InitAuthSignedIn
    /\ InitDashLoaded

NextFlag ==
    \/ refreshData
    \/ \E v \in {"visible", "hidden"} : VisibilityChange(v)
    \/ \E t \in timers : TimerFire(t)
    \/ \E c \in sessionChecks, res \in SessionResults : GetSessionResolve(c, res)
    \/ \E u \in updating : UpdateFinish(u)
    \/ Advance(FlagTick, FlagHorizon)

\* the tab-switch utility under manual refreshes and visibility changes
SpecFlag == InitFlag /\ [][NextFlag]_vars

\* granularity of the clock of the provider specification, in milliseconds
AuthTick == 1000
\* how far past StartTime the clock of the provider specification runs
AuthHorizon == 3000
\* number of user and platform events in a behaviour of the provider specification
AuthEvents == 2

\* the strings a page load can find under 'aditi_user_cache' and under
\* 'aditi_supabase_auth': none, text that is not JSON, or, with a session, an
\* identity cached long ago, almost two hours ago, or just now
InitialCaches ==
    {<<Absent, Absent>>,
     <<RawText("{"), JSONstringify(Session1)>>,
     <<JSONstringify(User1(StartTime - Tick0)), RawText("{")>>,
     <<JSONstringify(User1(StartTime - TwoHours - Tick0)), JSONstringify(Session1)>>,
     <<JSONstringify(User1(StartTime - TwoHours + Tick0)), JSONstringify(Session1)>>,
     <<JSONstringify(User1(StartTime - Tick0)), JSONstringify(Session1)>>}

\* the tab state an earlier load of this tab left, Tick0 before this one
EarlierTabState ==
    JSONstringify([tabId |-> [t |-> StartTime - Tick0, r |-> 1],
                   lastActive |-> StartTime - Tick0, route |-> "/user-dashboard"])

\* the page is about to load, in a new tab or by a reload of the tab Tick0 after
\* preventNextTabSwitchRefresh ran in it: sessionStorage outlives the reload,
\* the timers do not
InitAuth ==
    /\ route = "/daily-update-form"
    /\ now = StartTime
    /\ variant \in Variants
    /\ visibility = "visible"
    /\ bodyClass = {}
    /\ timers = {}
    /\ armedAt = [k \in FlagKinds |-> -1]
    /\ rearmed = [k \in FlagKinds |-> FALSE]
    /\ budget = AuthEvents
    /\ ssReturning = FALSE
    /\ \E reloaded \in BOOLEAN :
        IF reloaded
        THEN /\ ssRapid = IF variant = "simplified" THEN Digits(StartTime - Tick0) ELSE <<>>
             /\ ssPrevent = IF variant = "simplified" THEN <<>> ELSE Digits(StartTime - Tick0)
             /\ ssTabId = IF variant = "simplified" THEN <<>>
                          ELSE <<[t |-> StartTime - Tick0, r |-> 1]>>
             /\ lsTabState = IF variant = "simplified" THEN Absent ELSE EarlierTabState
        ELSE /\ ssRapid = <<>>
             /\ ssPrevent = <<>>
             /\ ssTabId = <<>>
             /\ lsTabState \in IF variant = "simplified" THEN {Absent}
                                ELSE {Absent, RawText(""), RawText("{"), EarlierTabState}
    /\ user = <<>>
    /\ authIsLoading = TRUE
    /\ \E c \in InitialCaches : lsUserCache = c[1] /\ lsSupabaseAuth = c[2]
    /\ ssSimpleTabState = Absent
    /\ providerMounted = FALSE
    /\ subscribed = FALSE
    /\ sessionChecks = {}
    /\ updating = {}
    /\ refreshing = FALSE
    /\ lastRead = [w \in Consumers |-> NoRead]
    /\ lastRestore = NoRestore
    /\ envSupabaseUrl = BackendUrl
    /\ installs = 1
    /\ nested = NoNested
    /\ lastFetch = NoFetch
    /\ windowSupabase = NoClient
    /\ awaiting = <<>>
    /\ tokenCall = NoTokenCall
    /\ wFrames = <<>>
    /\ wCalls = NoCalls
    /\ InitTabs
    /\ InitDashUnmounted

NextAuth ==
    \/ PageLoad
    \/ \E v \in {"visible", "hidden"} : VisibilityChange(v)
    \/ \E t \in timers : TimerFire(t)
    \/ \E c \in sessionChecks, res \in SessionResults : GetSessionResolve(c, res)
    \/ \E u \in updating : UpdateFinish(u)
    \/ RefreshUserCall
    \/ \E res \in UserResults : GetUserResolve(res)
    \/ ClientAuthFetch
    \/ RestoreTabStateCall
    \/ Advance(AuthTick, AuthHorizon)

\* the auth provider from the load of a page that is not the dashboard
SpecAuth == InitAuth /\ [][NextAuth]_vars

\* the live session of a global client: none, the one in storage, a newer one
LiveSessions == {<<>>, <<"t1">>, <<"t2">>}

\* number of window.fetch calls in a behaviour of the fetch specification
FetchEvents == 1

\* the page has loaded with a user signed in; under 'aditi_supabase_auth' lies
\* nothing, text that is not JSON, a raw token, or the session; the build has
\* the backend URL or none; the tab may have been shown Tick0 ago
InitFetchWith(stored) ==
    /\ route = "/daily-update-form"
    /\ now = StartTime
    /\ variant \in Variants
    /\ visibility = "visible"
    /\ ssRapid = <<>>
    /\ ssPrevent = <<>>
    /\ rearmed = [k \in FlagKinds |-> FALSE]
    /\ budget = FetchEvents
    /\ ssTabId = IF variant = "simplified" THEN <<>> ELSE <<[t |-> StartTime, r |-> 1]>>
    /\ \E shown \in IF variant = "suppressive" THEN BOOLEAN ELSE {FALSE} :
        IF shown
        THEN /\ ssReturning = TRUE
             /\ bodyClass = {TAB_ACTIVE_CLASS}
             /\ timers = {[cb |-> "clearReturning", inst |-> 0, cu |-> <<>>,
                           due |-> StartTime - Tick0 + ReturningTimeout]}
             /\ armedAt = [k \in FlagKinds |->
                              IF k = "returning" THEN StartTime - Tick0 ELSE -1]
             /\ lsTabState = JSONstringify([hasAuth |-> TRUE,
                                            authTimestamp |-> StartTime - Tick0,
                                            userEmail |-> "u1@aditi.com",
                                            tabId |-> [t |-> StartTime, r |-> 1],
                                            lastActive |-> StartTime - Tick0,
                                            route |-> route])
        ELSE /\ ssReturning = FALSE
             /\ bodyClass = {}
             /\ timers = {}
             /\ armedAt = [k \in FlagKinds |-> -1]
             /\ lsTabState = IF variant = "simplified" THEN Absent
                             ELSE JSONstringify([initialLoad |-> TRUE,
                                                 tabId |-> [t |-> StartTime, r |-> 1],
                                                 lastActive |-> StartTime, route |-> route])
    /\ user = <<User1(StartTime)>>
    /\ authIsLoading = FALSE
    /\ lsUserCache \in {JSONstringify(User1(StartTime)), RawText("{")}
    /\ lsSupabaseAuth \in stored
    /\ ssSimpleTabState = Absent
    /\ providerMounted = TRUE
    /\ subscribed = TRUE
    /\ sessionChecks = {}
    /\ updating = {}
    /\ refreshing = FALSE
    /\ lastRead = [w \in Consumers |-> NoRead]
    /\ lastRestore = NoRestore
    /\ envSupabaseUrl \in {<<>>, BackendUrl}
    /\ installs = 1
    /\ nested = NoNested
    /\ lastFetch = NoFetch
    /\ windowSupabase \in {NoClient} \cup [installed : {TRUE}, session : LiveSessions]
    /\ awaiting = <<>>
    /\ tokenCall = NoTokenCall
    /\ wFrames = <<>>
    /\ wCalls = NoCalls
    /\ InitTabs
    /\ InitDashUnmounted

InitFetch == InitFetchWith({Absent, RawText("{"), RawJwt, JSONstringify(Session1)})

NextFetch ==
    \/ \E input \in FetchInputs, init \in FetchInits : WindowFetch(input, init)
    \/ \E res \in LiveResults : LiveSessionSettle(res)

\* window.fetch applied to the calls a page makes
SpecFetch == InitFetch /\ [][NextFetch]_vars

\* the calls of the specification below: every URL, as string, URL object or
\* Request without headers of its own; no init, or one with the caller's header
SettleInputs == {i \in FetchInputs : i.headers = {}}
SettleInits ==
    {<<>>, <<[method |-> <<"POST">>,
              headers |-> <<{<<"Authorization", <<"Bearer", "own">>>>}>>]>>}

NextFetchSettles ==
    \/ \E input \in SettleInputs, init \in SettleInits : WindowFetch(input, init)
    \/ \E res \in LiveResults : LiveSessionSettle(res)

\* window.fetch where a getSession call that is awaited settles
SpecFetchSettles ==
    /\ InitFetch
    /\ [][NextFetchSettles]_vars
    /\ WF_vars(\E res \in LiveResults : LiveSessionSettle(res))

\* a number under access_token: the values under that key are strings of the
\* model, and this one stands for the number 12345
NumberToken == "12345 (number)"

\* what may lie under 'aditi_supabase_auth': nothing, the empty string, text
\* that is not JSON, a raw token, JSON null, a number, strings, the session in
\* the three shapes the scans know, an object without token, and an object whose
\* access_token is a number
StoredValues ==
    {Absent, RawText(""), RawText("{"), RawJwt,
     JSONstringify(JsonNull), JSONstringify(JsonNumber), JSONstringify(JsonString),
     JSONstringify(JsonJwt),
     JSONstringify(Session1),
     JSONstringify([session |-> Session1]),
     JSONstringify([data |-> [session |-> Session1]]),
     JSONstringify([session |-> JsonNull, data |-> JsonNumber]),
     JSONstringify([user |-> [id |-> "u1", email |-> "u1@aditi.com"]]),
     JSONstringify([access_token |-> NumberToken])}

InitToken ==
    /\ InitFetchWith(StoredValues)
    /\ variant = "simplified"
    /\ lsUserCache = JSONstringify(User1(StartTime))
    /\ envSupabaseUrl = BackendUrl

NextToken ==
    \/ GetAuthTokenSyncCall
    \/ GetAuthTokenCall
    \/ \E res \in LiveResults : GetAuthTokenSettle(res)

\* getAuthToken and getAuthTokenSync over the contents of localStorage
SpecToken == InitToken /\ [][NextToken]_vars

NextClientFetch ==
    \/ ClientFetchCall
    \/ \E status \in Statuses : ClientFetchRespond(status)

\* the custom fetch of the Supabase client under the backend's responses
SpecClientFetch == InitFetch /\ [][NextClientFetch]_vars

\* granularity of the clock of the session specification, in milliseconds
SessionTick == 500
\* how far past StartTime the clock of the session specification runs
SessionHorizon == 1000
\* number of user and platform events in a behaviour of the session specification
SessionEvents == 4

InitSession ==
    /\ route = "/user-dashboard"
    /\ InitUtil(SessionEvents)
    /\ InitAuthSignedIn
    /\ InitDashLoaded

NextSession ==
    \/ refreshData
    \/ \E v \in {"visible", "hidden"} : VisibilityChange(v)
    \/ \E t \in timers : TimerFire(t)
    \/ \E c \in sessionChecks, res \in SessionResults : GetSessionResolve(c, res)
    \/ \E u \in updating : UpdateFinish(u)
    \/ RefreshUserCall
    \/ \E res \in UserResults : GetUserResolve(res)
    \/ ClientAuthFetch
    \/ Advance(SessionTick, SessionHorizon)

\* the auth provider of a signed-in user on the loaded dashboard, under
\* visibility changes, manual refreshes, refreshUser calls and requests of the
\* auth client
SpecSession == InitSession /\ [][NextSession]_vars

\* granularity of the clock of the return specification, in milliseconds
ReturnTick == 2500
\* how far past StartTime the clock of the return specification runs
ReturnHorizon == 5000
\* number of user and platform events in a behaviour of the return specification
ReturnEvents == 3

\* the requests for data a page makes on return: those of FetchInputs without
\* headers of their own, for the API of this origin and for the backend
DataFetchInputs ==
    {i \in FetchInputs :
        /\ i.headers = {}
        /\ i.url \in {<<"/", "api", "/", "updates">>,
                      Origin \o <<"/", "api", "/", "updates">>,
                      BackendUrl \o <<"/", "rest", "/", "v1">>}}

InitReturn ==
    /\ route = "/user-dashboard"
    /\ InitUtil(ReturnEvents)
    /\ InitAuthSignedIn
    /\ InitDashLoaded

NextReturn ==
    \/ \E v \in {"visible", "hidden"} : VisibilityChange(v)
    \/ \E input \in DataFetchInputs : WindowFetch(input, <<>>)
    \/ FetchCall
    \/ \E t \in timers : TimerFire(t)
    \/ Advance(ReturnTick, ReturnHorizon)

\* the loaded dashboard of a signed-in user whose tab is hidden and shown and
\* whose page then asks for data
SpecReturn == InitReturn /\ [][NextReturn]_vars

NextStorageFull ==
    \/ \E v \in {"visible", "hidden"}, failing \in SUBSET Storages :
          VisibilityChangeStorageFull(v, failing)
    \/ \E t \in timers : TimerFire(t)
    \/ Advance(ReturnTick, ReturnHorizon)

\* the loaded dashboard of a signed-in user whose tab is hidden and shown while
\* writes to its storages may fail
SpecStorageFull == InitReturn /\ [][NextStorageFull]_vars

\* granularity of the clock of the reload specification, in milliseconds
ReloadTick == 3000
\* how far past StartTime the clock of the reload specification runs
ReloadHorizon == 9000
\* number of user and platform events in a behaviour of the reload specification
ReloadEvents == 3

InitReload ==
    /\ route = "/user-dashboard"
    /\ InitUtil(ReloadEvents)
    /\ InitAuthSignedIn
    /\ InitDashLoaded

NextReload ==
    \/ refreshData
    \/ \E v \in {"visible", "hidden"} : VisibilityChange(v)
    \/ Reload
    \/ PageLoad
    \/ Mount
    \/ \E t \in timers : TimerFire(t)
    \/ \E c \in sessionChecks, res \in SessionResults : GetSessionResolve(c, res)
    \/ \E u \in updating : UpdateFinish(u)
    \/ Advance(ReloadTick, ReloadHorizon)

\* the dashboard of a signed-in user under manual refreshes, visibility changes
\* and reloads of the tab
SpecReload == InitReload /\ [][NextReload]_vars

\* granularity of the clock of the two-tab specification, in milliseconds
TabTick == 1000
\* how far past StartTime the clock of the two-tab specification runs
TabHorizon == 2000
\* number of saveTabState calls in a behaviour of the two-tab specification
TabEvents == 2

InitTwoTabs ==
    /\ route = "/user-dashboard"
    /\ InitUtil(TabEvents)
    /\ InitAuthSignedIn
    /\ InitDashLoaded

NextTwoTabs ==
    \/ \E tab \in Tabs, fields \in SaveFields, r \in RandomSuffixes :
          SaveTabStateBuild(tab, fields, r)
    \/ \E tab \in Tabs : SaveTabStateStore(tab)
    \/ Advance(TabTick, TabHorizon)

\* two tabs of this origin call saveTabState, their steps interleaved
SpecTwoTabs == InitTwoTabs /\ [][NextTwoTabs]_vars

NextTabId ==
    \/ PageLoad
    \/ Reload
    \/ \E tab \in Tabs, fields \in {[lastVisible |-> now]}, r \in RandomSuffixes :
          SaveTabStateBuild(tab, fields, r)
    \/ \E tab \in Tabs : SaveTabStateStore(tab)
    \/ \E t \in timers : TimerFire(t)
    \/ \E c \in sessionChecks, res \in SessionResults : GetSessionResolve(c, res)
    \/ \E u \in updating : UpdateFinish(u)
    \/ Advance(AuthTick, AuthHorizon)

\* the page is about to load and nobody has signed in from this browser
InitTabId ==
    /\ InitAuth
    /\ lsUserCache = Absent
    /\ lsSupabaseAuth = Absent
    /\ lsTabState \in {Absent, EarlierTabState}

\* a tab loads the page, is reloaded and calls getTabId through saveTabState,
\* as does a second tab
SpecTabId == InitTabId /\ [][NextTabId]_vars

NextRestore ==
    \/ PageLoad
    \/ \E path \in Paths, r \in RandomSuffixes : OtherTabSave(path, r)
    \/ \E failing \in SUBSET Storages : RouterChangeStorageFull(failing)
    \/ \E t \in timers : TimerFire(t)
    \/ Advance(AuthTick, AuthHorizon)

\* a page loads while a second tab of the origin saves its state, and the
\* router of the app shell changes
SpecRestore == InitTabId /\ [][NextRestore]_vars

(***************************************************************************)
(* Properties                                                              *)
(***************************************************************************)
\* some flag was set at a time T with now in [T, T + W)
InsideWindow == \E k \in FlagKinds : armedAt[k] >= 0 /\ now < armedAt[k] + WindowOf(k)

\* C1: once the flag is set at T with window W, isReturningFromTabSwitch() is true
\* at every check in [T, T+W) and false at every check from T+W on (checks run
\* after the timers that are due)
C1_TimeBoundedValidity ==
    NoTimerDue => (isReturningFromTabSwitch <=> InsideWindow)

\* C2: a flag set again at T2 while the one set at T1 < T2 is still active stays
\* true until T2 + W: the timer of T1 does not clear it
C2_RearmKeepsFlag ==
    \A k \in FlagKinds :
        (NoTimerDue /\ rearmed[k] /\ now < armedAt[k] + WindowOf(k))
            => isReturningFromTabSwitch

\* C3: a fetchUserUpdates call whose updates query meets 406 makes one session
\* refresh and one retry of the query in all, the fetch wrapper's included
C3_OneRefreshOneRetry ==
    nRefresh <= 1 /\ nQueryNet <= 2

\* C4: 15 seconds after fetchUserUpdates was called, at the latest, isLoading is false
C4_LoadingClears ==
    (dMounted /\ NoTimerDue /\ invokedAt >= 0 /\ now >= invokedAt + LoadingTimeoutMs)
        => ~dIsLoading

\* C5: no read of the cached identity or of the cached session raises or
\* rejects, whatever the stored string is
C5_CacheReadsNeverRaise ==
    \A w \in Consumers : ~lastRead[w].raised

\* C6: restoreTabState() returns the record stored last, or null when the stored
\* string is absent or is not JSON, and never raises
C6_RestoreTotal ==
    lastRestore.done =>
        /\ ~lastRestore.raised
        /\ lastRestore.val = IF lastRestore.stored.kind = "json"
                             THEN <<lastRestore.stored.val>> ELSE <<>>

\* restoreTabState() met a stored string that is not JSON and returned null
C6_RestoredMalformed ==
    /\ lastRestore.done
    /\ lastRestore.stored = RawText("{")
    /\ lastRestore.val = <<>>
    /\ ~lastRestore.raised

\* the consumers that read the cached identity to hold it
IdentityReaders == {"mount", "visibility", "checkSessionQuietly", "refreshUser"}

\* the read rd found an identity whose lastChecked is more than two hours old
StaleRead(rd) ==
    rd.done /\ rd.stored.kind = "json" /\ rd.at - rd.stored.val.lastChecked > TwoHours

\* the read rd found an identity whose lastChecked is less than two hours old
FreshRead(rd) ==
    rd.done /\ rd.stored.kind = "json" /\ rd.at - rd.stored.val.lastChecked < TwoHours

\* C7: a consumer that reads a cached identity older than two hours does not make
\* it the held user, and a getSession or getUser call is issued instead
C7_StaleNotAdopted ==
    \A w \in IdentityReaders :
        StaleRead(lastRead[w]) => ~lastRead[w].adopted /\ lastRead[w].checked

\* C8: a checkSessionQuietly call that finds the flag active, no identity held
\* and a cached identity younger than two hours calls setUser with that
\* identity, which is the held user afterwards, and issues no getSession call
C8_FreshCachePreferred ==
    [][LET rd == lastRead'["checkSessionQuietly"] IN
       (rd # lastRead["checkSessionQuietly"] /\ rd.skip /\ user = <<>> /\ FreshRead(rd))
           => /\ rd.adopted
              /\ user' = <<rd.stored.val>>
              /\ sessionChecks' = sessionChecks]_vars

\* the Authorization entries of a header list
AuthorizationOf(h) == {e \in h : e[1] = "authorization"}

\* C9: the wrapper of ensureTokenInRequests calls the fetch it replaced once, with
\* the caller's input and with the caller's init but for an added Authorization
\* header; an Authorization header the request carries, in init or on a
\* Request given as input, is sent unchanged
C9_WrapperForwardsOnce ==
    (lastFetch.done /\ variant = "simplified") =>
        LET caller == CopyInit(lastFetch.init)
            given == NewHeaders(IF caller.headers # <<>> THEN caller.headers[1] ELSE {})
            passed == NewHeaders(IF lastFetch.callInit.headers # <<>>
                                 THEN lastFetch.callInit.headers[1] ELSE {})
            carried == requestHeaders(lastFetch.input, caller) IN
        /\ lastFetch.calls = 1
        /\ lastFetch.callInput = lastFetch.input
        /\ lastFetch.callInit.method = caller.method
        /\ passed \ AuthorizationOf(passed) = given \ AuthorizationOf(given)
        /\ AuthorizationOf(given) # {} => passed = given
        /\ AuthorizationOf(carried) \subseteq lastFetch.sent

\* the host of a URL: the pieces after the scheme up to the path or the query
RECURSIVE HostOf(_)
HostOf(rest) ==
    IF rest = <<>> \/ rest[1] \in {"/", "?ref="} THEN <<>>
    ELSE <<rest[1]>> \o HostOf(Tail(rest))

\* the origin a URL resolves to on a page of Origin
OriginOf(url) ==
    IF Len(url) >= 3 /\ url[1] = "https:"
    THEN SubSeq(url, 1, 3) \o HostOf(SubSeq(url, 4, Len(url)))
    ELSE IF Len(url) >= 2 /\ url[1] = "/" /\ url[2] = "/"
         THEN <<"https:", "/", "/">> \o HostOf(SubSeq(url, 3, Len(url)))
         ELSE Origin

\* the URL is of this origin or of the configured backend
KnownOrigin(url) ==
    \/ OriginOf(url) = Origin
    \/ envSupabaseUrl # <<>> /\ OriginOf(url) = envSupabaseUrl

\* C10: the wrapper adds no Authorization header to a request whose URL is
\* neither of this origin nor of the configured backend, also in a build without
\* backend URL and for a URL that only holds 'supabase.co' in its path or query
C10_TokenOnlyForKnownOrigins ==
    (lastFetch.done /\ variant = "simplified" /\ ~KnownOrigin(lastFetch.input.url)) =>
        AuthorizationOf(lastFetch.sent) =
            AuthorizationOf(requestHeaders(lastFetch.input, CopyInit(lastFetch.init)))

\* the headers of the init the wrapper passed to the fetch it replaced
passedHeaders ==
    NewHeaders(IF lastFetch.callInit.headers # <<>> THEN lastFetch.callInit.headers[1]
               ELSE {})

\* C11: whenever the live session of the external client can supply a token, a
\* request of this origin or of the backend that carries no Authorization header
\* of its caller is sent with the token of the live session, not with one found
\* in storage
C11_LiveSessionFirst ==
    (/\ lastFetch.done /\ variant = "simplified"
     /\ tokenWanted(lastFetch.input.url)
     /\ windowSupabase.installed /\ windowSupabase.session # <<>>
     /\ lastFetch.live # "rejects"
     /\ AuthorizationOf(NewHeaders(IF CopyInit(lastFetch.init).headers # <<>>
                                   THEN CopyInit(lastFetch.init).headers[1]
                                   ELSE {})) = {}) =>
        AuthorizationOf(passedHeaders) =
            {<<"authorization", <<"Bearer", windowSupabase.session[1]>>>>}

\* the step ends a call for `input` in the fetch the wrapper replaced, once
Forwarded(input) ==
    lastFetch'.done /\ lastFetch'.calls = 1 /\ lastFetch'.callInput = input

\* C12: a call of the wrapper of ensureTokenInRequests either reaches the fetch
\* it replaced at once or awaits the live session; when that settles, resolved
\* or rejected, with or without a token, the call reaches the fetch it replaced;
\* an awaited call is forwarded eventually
C12_AlwaysForwards ==
    /\ [][variant = "simplified" =>
            /\ (awaiting = <<>> /\ awaiting' # <<>>) => ~lastFetch'.done
            /\ (awaiting = <<>> /\ awaiting' = <<>> /\ budget' < budget) =>
                   Forwarded(lastFetch'.input)
            /\ (awaiting # <<>> /\ awaiting' # awaiting) =>
                   awaiting' = <<>> /\ Forwarded(awaiting[1].input)]_vars
    /\ (awaiting # <<>>) ~> (awaiting = <<>> /\ lastFetch.done /\ lastFetch.calls = 1)

\* a call whose awaited getSession rejected and for which no token was found
\* anywhere was forwarded without Authorization header
C12_ForwardedWithoutToken ==
    /\ variant = "simplified" /\ lastFetch.done /\ lastFetch.live = "rejects"
    /\ tokenWanted(lastFetch.input.url)
    /\ getAuthToken(<<>>) = <<>>
    /\ lastFetch.calls = 1
    /\ AuthorizationOf(passedHeaders) = {}

\* C13: with a corrected lib/tabSwitchUtil installed (part_005 or the simplified
\* one), also after the dashboard called preventNextTabSwitchRefresh, no request
\* through window.fetch or through the custom fetch of the Supabase client is
\* answered with a made-up response: each reaches the network
C13_NoSyntheticResponse ==
    variant \in {"corrected", "simplified"} =>
        /\ lastFetch.done => lastFetch.calls = 1
        /\ lastRead["clientFetch"].done => ~lastRead["clientFetch"].skip

\* a URL of the API of this origin or of the backend
isDataUrl(url) ==
    includes(url, <<"/", "api", "/">>) \/ startsWith(url, BackendUrl)

\* the tab was shown at this instant and the flag that set is still up
JustShown ==
    visibility = "visible" /\ armedAt["returning"] = now /\ isReturningFromTabSwitch

\* C14: with part_004 installed, isReturningFromTabSwitch() is true right after
\* the visibilitychange callback of a tab that was hidden and is shown, and a
\* fetch of data attempted at that moment (fetchUserUpdates, or window.fetch
\* for a URL of the API or of the backend) ends without a call of the network
C14_ReturnFetchIsLocal ==
    [][variant = "suppressive" =>
          /\ (visibility = "hidden" /\ visibility' = "visible") =>
                 isReturningFromTabSwitch'
          /\ (JustShown /\ now' = now) => nQueryNet' = nQueryNet
          /\ (JustShown /\ lastFetch' # lastFetch /\ isDataUrl(lastFetch'.input.url)) =>
                 lastFetch'.calls = 0]_vars

\* every event that set a flag lies more than the window of the flag in the past
FlagsExpired ==
    \A k \in FlagKinds : armedAt[k] = -1 \/ now > armedAt[k] + WindowOf(k)

\* C15: when the last event that set a flag lies more than the window in the
\* past, isReturningFromTabSwitch() is false and a call of fetchUserUpdates
\* sends its query to the network
C15_ExpiredFlagFetches ==
    [][/\ FlagsExpired' => ~isReturningFromTabSwitch'
       /\ (FlagsExpired' /\ invokedAt' # invokedAt /\ invokedAt' = now') =>
              /\ nQueryNet' = 1
              /\ wPc' = "net1"]_vars

\* C16: with part_004 or part_005 installed, the listener of every change from
\* hidden to visible saves a snapshot that holds lastVisible and sets the
\* returning flag, so that isReturningFromTabSwitch() is true right after it
C16_ShowSetsFlag ==
    [][(variant \in {"suppressive", "corrected"}
          /\ visibility = "hidden" /\ visibility' = "visible") =>
            /\ \A r \in RandomSuffixes :
                  LET snapshot == JSONparse(utilVisibilityListener("visible", r).tabState) IN
                  snapshot.ok /\ "lastVisible" \in DOMAIN snapshot.val
                              /\ snapshot.val.lastVisible = now
            /\ ssReturning'
            /\ isReturningFromTabSwitch']_vars

\* the timers that will call checkSessionQuietly
sessionCheckTimers == {t \in timers : t.cb = "checkSession"}

\* C17: with part_004 installed the flag is set in the capture-phase callback, so
\* the visibility handler of the auth provider, which runs after it on the same
\* event, sees isReturningFromTabSwitch() true and schedules no session check
C17_ProviderSeesFlag ==
    [][(variant = "suppressive" /\ visibility = "hidden" /\ visibility' = "visible") =>
          /\ lastRead'["visibility"].done
          /\ lastRead'["visibility"].skip
          /\ ~lastRead'["visibility"].checked
          /\ sessionCheckTimers' \subseteq sessionCheckTimers]_vars

\* the tab was shown at this instant, the provider's handler saw the flag that
\* sets and no session check is pending
C17_ShownWithoutCheck ==
    /\ variant = "suppressive" /\ visibility = "visible"
    /\ armedAt["returning"] = now
    /\ lastRead["visibility"].done /\ lastRead["visibility"].skip
    /\ lastRead["visibility"].at = now
    /\ sessionCheckTimers = {}

C19_LastWriterWins ==
    (saved # <<>> /\ variant # "simplified") =>
        LET last == saved[Len(saved)] IN
        /\ lsTabState = JSONstringify(last.rec)
        /\ last.rec.tabId = tabIdOf(last.tab)[1]
        /\ DOMAIN JSONparse(lsTabState).val = DOMAIN last.rec

\* both tabs have saved, the call that stored last having built its record
\* before the other one built its own
C19_InterleavedSaves ==
    /\ variant # "simplified"
    /\ Len(saved) = 2 /\ saved[1].tab # saved[2].tab
    /\ \A t \in Tabs : tabWork[t] = <<>>
    /\ saved[2].rec.lastActive < saved[1].rec.lastActive
    /\ DOMAIN saved[1].rec # DOMAIN saved[2].rec

\* the saveTabState call that stored last
lastSave == saved[Len(saved)]

\* the record the call that stored last was to leave: identifier of its tab,
\* time and path of the call, the caller's fields over them
savedWithTabId ==
    lastSave.fields @@ [tabId |-> tabIdOf(lastSave.tab)[1], lastActive |-> lastSave.at,
                        route |-> lastSave.path]

\* the same without identifier
savedWithoutTabId ==
    lastSave.fields @@ [lastActive |-> lastSave.at, route |-> lastSave.path]

C21_StableTabId ==
    [][/\ ssTabId # <<>> => ssTabId' = ssTabId
       /\ otherTabId # <<>> => otherTabId' = otherTabId
       /\ \A tab \in Tabs :
            (variant # "simplified" /\ tabWork[tab] = <<>> /\ tabWork'[tab] # <<>>) =>
                /\ tabIdOf(tab)' # <<>>
                /\ tabWork'[tab][1].rec.tabId = tabIdOf(tab)'[1]
                /\ tabIdOf(tab) = <<>> => tabIdOf(tab)'[1].t = now
       /\ (lsTabState' # lsTabState /\ tabWork' = tabWork /\ JSONparse(lsTabState').ok) =>
              JSONparse(lsTabState').val.tabId = ssTabId'[1]]_vars

\* the tab drew its identifier in this run and a saveTabState call after a
\* reload at a later time carried it; the second tab drew another one
C21_SameIdAfterReload ==
    /\ ssTabId # <<>>
    /\ ssTabId[1].t >= StartTime
    /\ JSONparse(lsTabState).ok
    /\ JSONparse(lsTabState).val.tabId = ssTabId[1]
    /\ JSONparse(lsTabState).val.lastActive > ssTabId[1].t
    /\ otherTabId # <<>>
    /\ otherTabId[1].t >= StartTime
    /\ otherTabId # ssTabId


\* C22: when a storage write throws in the foreground visibility handler of
\* part_004 no exception leaves the handler, the flag is true after it and the
\* timer that clears it is pending
C22_StorageFailureCaught ==
    [][(variant = "suppressive" /\ visibility = "hidden" /\ visibility' = "visible") =>
          /\ escaped' = escaped
          /\ ssReturning'
          /\ \E t \in timers' : t.cb = "clearReturning" /\ t.due = now + ReturningTimeout]_vars

\* C23: when updateUserData receives a user object without an email the held
\* identity becomes null and the cached identity is removed from localStorage
C23_NoEmailClearsCache ==
    [][(\/ \E c \in sessionChecks : GetSessionResolve(c, "sessionNoEmail")
        \/ GetUserResolve("userNoEmail")) =>
          /\ user' = <<>>
          /\ lsUserCache' = Absent]_vars

\* localStorage and sessionStorage hold nothing and the page has not loaded
FreshLoad ==
    /\ ~providerMounted
    /\ lsUserCache = Absent /\ lsSupabaseAuth = Absent /\ lsTabState = Absent
    /\ ssRapid = <<>> /\ ssPrevent = <<>> /\ ~ssReturning /\ ssTabId = <<>>
    /\ ssSimpleTabState = Absent

\* C24: on a fresh load with empty localStorage and sessionStorage the
\* restoreTabState() call of the load returns null, the held identity is null and
\* checkSessionQuietly issues a getSession call
C24_FreshLoadRestoresNothing ==
    [][(FreshLoad /\ PageLoad) =>
          /\ lastRestore'.val = <<>>
          /\ user' = <<>>
          /\ [cu |-> <<>>] \in sessionChecks']_vars

\* the routes the restore step is not to navigate to: the home route, which is
\* the login page
DisallowedRoutes == {"/"}

\* C25: the restore step calls router.replace only when a saved route exists and
\* differs from the current route, and never with the home or login route '/'
C25_RestoreNavigation ==
    [][replaced' # replaced =>
          /\ Len(replaced') = Len(replaced) + 1
          /\ replaced'[Len(replaced')] # route
          /\ replaced'[Len(replaced')] \notin DisallowedRoutes]_vars

\* the tab state that saveTabState of the installed revision has persisted
persistedTabState ==
    IF variant = "simplified" THEN JSONparse(ssSimpleTabState) ELSE JSONparse(lsTabState)

\* C26: after the tab is hidden while an identity is held the persisted tab
\* state holds both the lastHidden timestamp and the annotation that an identity
\* was present (hasAuth, hiddenWithAuth)
C26_HiddenStateAnnotated ==
    [][(visibility = "visible" /\ visibility' = "hidden" /\ user # <<>>) =>
          /\ persistedTabState'.ok
          /\ {"lastHidden", "hasAuth", "hiddenWithAuth"} \subseteq DOMAIN persistedTabState'.val
          /\ persistedTabState'.val.lastHidden = now
          /\ persistedTabState'.val.hasAuth
          /\ persistedTabState'.val.hiddenWithAuth]_vars

\* typeof v === 'string' of a value found under access_token or returned
isTokenString(v) == v # NumberToken

\* C27: getAuthToken and getAuthTokenSync return a token string or null and
\* never raise or reject, whatever localStorage holds and however the live
\* session call settles
C27_TokenOrNull ==
    /\ tokenCall.pc \in {"none", "awaiting", "returned"}
    /\ tokenCall.pc = "returned" =>
          \/ tokenCall.val = <<>>
          \/ isTokenString(tokenCall.val[1])

\* the URL of a call holds '/auth/' or '/session'
isAuthUrl(url) == includes(url, <<"/", "auth", "/">>) \/ includes(url, <<"/", "session">>)

\* C28: with part_004, while isReturningFromTabSwitch() is true a window.fetch
\* call whose URL holds '/auth/' or '/session' resolves with the response built
\* from the cached identity and the original fetch is not called; while it is
\* false every call goes to the original fetch with its arguments unchanged
C28_AuthFetchAnswered ==
    [][(variant = "suppressive" /\ budget' < budget /\ lastFetch'.done) =>
          IF isReturningFromTabSwitch
          THEN isAuthUrl(lastFetch'.input.url) =>
                  /\ lastFetch'.calls = 0
                  /\ ~lastRead'["windowFetch"].raised
          ELSE /\ lastFetch'.calls = 1
               /\ lastFetch'.callInput = lastFetch'.input
               /\ lastFetch'.callInit = CopyInit(lastFetch'.init)]_vars

\* C29: on a 406 response a call of the client's custom fetch makes one
\* refreshSession call and one retry, three requests with the token request,
\* also when the token request passes through the custom fetch and gets a 406
C29_OneRefreshOneRetry ==
    /\ wCalls.refresh <= 1
    /\ wCalls.net <= 3

\* C30: when refreshData is invoked while isReturningFromTabSwitch() is false,
\* the fetchUserUpdates call it makes sends the updates query to the backend
\* before refreshData reports success
C30_RefreshIssuesQuery ==
    [][(refreshData /\ ~isReturningFromTabSwitch) =>
          /\ invokedAt' = now
          /\ dPc' = "query1"
          /\ wPc' = "net1"
          /\ nQueryNet' = 1]_vars

\* number of user events in a behaviour of the sign-out specification
SignOutEvents == 2

InitSignOut ==
    /\ route = "/user-dashboard"
    /\ InitUtil(SignOutEvents)
    /\ InitAuthSignedIn
    /\ InitDashLoaded

NextSignOut ==
    \/ FetchCall
    \/ \E resp \in Responses : NetRespond(resp)
    \/ \E ok \in BOOLEAN : WrapperRefreshResolve(ok)
    \/ \E ok \in BOOLEAN : DashRefreshResolve(ok)
    \/ \E ok \in BOOLEAN : SignOutResolve(ok)
    \/ \E t \in timers : TimerFire(t)
    \/ Advance(DashTick, DashHorizon)

\* the loaded dashboard of a signed-in user whose queries the backend may
\* answer with 406, up to the sign-out that fetchUserUpdates forces
SpecSignOut == InitSignOut /\ [][NextSignOut]_vars

InitNested ==
    /\ InitFetchWith({Absent, RawJwt, JSONstringify(Session1)})
    /\ variant = "simplified"
    /\ envSupabaseUrl = BackendUrl

NextNested ==
    \/ EnsureTokenInRequestsCall
    \/ \E input \in FetchInputs, init \in FetchInits : NestedFetch(input, init)
    \/ \E res \in LiveResults : NestedLiveSettle(res)

\* window.fetch under repeated calls of ensureTokenInRequests
SpecNested == InitNested /\ [][NextNested]_vars

\* granularity of the clock of the filter specification, in milliseconds
FilterTick == 50
\* how far past StartTime the clock of the filter specification runs
FilterHorizon == 200
\* number of user events in a behaviour of the filter specification
FilterEvents == 3

InitFilter ==
    /\ route = "/user-dashboard"
    /\ InitUtil(FilterEvents)
    /\ InitAuthSignedIn
    /\ InitDashLoaded

NextFilter ==
    \/ \E filterType \in CardFilters : filterByCardType(filterType)
    \/ FetchCall
    \/ \E resp \in {"rows", "empty"} : NetRespond(resp)
    \/ \E t \in timers : TimerFire(t)
    \/ Advance(FilterTick, FilterHorizon)

\* the status cards of the loaded dashboard under clicks and reloads of its rows
SpecFilter == InitFilter /\ [][NextFilter]_vars

\* C31: when the getSession call of checkSessionQuietly reports no session and
\* no error while an identity is held, the held identity is cleared
C31_NoSessionClearsIdentity ==
    [][(user # <<>> /\ \E c \in sessionChecks : GetSessionResolve(c, "none")) =>
          user' = <<>>]_vars

\* C32: while the auth provider is mounted its onAuthStateChange subscription
\* is active, also when the listener effect ran while isReturningFromTabSwitch()
\* was true, so that a SIGNED_OUT event reaches the handler that clears the
\* held and the cached identity
C32_SubscribedWhileMounted ==
    providerMounted => subscribed

\* C33: when the sign-out call to the auth service fails, signOut leaves the
\* held and the cached identity as they were before signOut was called and
\* isLoading is false again; when it succeeds, both are absent afterwards
C33_SignOutOutcome ==
    [][\A ok \in BOOLEAN :
          SignOutResolve(ok) =>
             /\ authIsLoading' = FALSE
             /\ IF ok
                THEN user' = <<>> /\ lsUserCache' = Absent
                ELSE /\ user' = signOutFrom[1].user
                     /\ lsUserCache' = signOutFrom[1].cache]_vars

authorizationOf(headers) == {e \in headers : e[1] = "authorization"}

\* C35: however often ensureTokenInRequests was called, a window.fetch call
\* reaches the platform's fetch exactly once, with at most one Authorization
\* header, whose value the caller supplied or the outermost wrapper chose, so
\* that the request is the one a single wrapper would have sent
C35_RepeatedInstallAsOnce ==
    nested.pc = "done" =>
       LET own == authorizationOf(NewHeaders(
                      IF CopyInit(nested.init0).headers # <<>>
                      THEN CopyInit(nested.init0).headers[1] ELSE {}))
                  \cup authorizationOf(nested.input.headers)
           outermost == nested.found[1] IN
       /\ nested.calls = 1
       /\ Cardinality(authorizationOf(nested.sent)) <= 1
       /\ \A e \in authorizationOf(nested.sent) :
             \/ e \in own
             \/ outermost # <<>> /\ e[2] = <<"Bearer", outermost[1]>>
       /\ nested.sent =
             requestHeaders(nested.input,
                            ensureTokenInRequests(nested.input, nested.init0, outermost))

\* C36: when the app shell of part_001 starts, the restoreTabState() call of its
\* restore step still returns the route that was persisted before the load: the
\* snapshot saved on start has not replaced it
C36_PersistedRouteRestored ==
    [][(/\ PageLoad
        /\ variant # "simplified"
        /\ Len(restoreTabState(lsTabState).val) > 0) =>
          /\ Len(lastRestore'.val) > 0
          /\ lastRestore'.val[1].route = restoreTabState(lsTabState).val[1].route]_vars

\* C37: once the callbacks filterByCardType scheduled have run, filteredUpdates
\* holds the loaded updates whose status is the active filter (all of them under
\* 'all'), and the stats count over the unfiltered list
C37_FilterSettles ==
    (dMounted /\ ~\E t \in timers : t.cb = "applyFilters" /\ t.inst = dInst) =>
       /\ filteredUpdates = IF activeFilter = "all" THEN userUpdates
                            ELSE SelectSeq(userUpdates, LAMBDA u : u = activeFilter)
       /\ stats = calculateStats(userUpdates)

============================================================================
